---- MODULE Spec2Model ----
(***************************************************************************)
(* PRZ AI/EI/OS: the heuristic core (GOOSEGUARD loop guard, resonance      *)
(* engine, user-feedback engine, pipeline runner) and the two agents that  *)
(* own history lists (PrzAgent, MarketingAgent).                           *)
(*                                                                         *)
(* Numbers.  Scores, confidences and intensities are JavaScript doubles in *)
(* the source; here they are fixed-point integers in thousandths, so 0.95  *)
(* is 950 and 1.0 is ONE = 1000.  Inputs are drawn from multiples for      *)
(* which every product below is exact.  Timestamps are integer             *)
(* milliseconds, as Date.now() gives them.                                 *)
(*                                                                         *)
(* Strings are sequences of one-character strings, so that toLowerCase,    *)
(* split(/\s+/) and template concatenation are computed, not assumed.      *)
(***************************************************************************)
EXTENDS Integers, Sequences, FiniteSets, TLC

VARIABLES
    call,              \* last call of a core function: its arguments and result
    constructed,       \* which agent object the behaviour constructs
    now,               \* Date.now()
    actionHistory,     \* PrzAgent.actionHistory
    feedbackHistory,   \* PrzAgent.feedbackHistory
    resonanceHistory,  \* PrzAgent.resonanceHistory
    eiHistory,         \* PrzAgent.ei.history (EmotionalIntelligence)
    runs,              \* continuations of PrzAgent.run() calls awaiting their turn
    log,               \* every PrzAgent call since construction and how it ended
    mktActionHistory,  \* MarketingAgent.actionHistory
    mktLog             \* every MarketingAgent call since construction and how it ended

vars == <<call, constructed, now, actionHistory, feedbackHistory, resonanceHistory,
          eiHistory, runs, log, mktActionHistory, mktLog>>

agentVars == <<constructed, now, actionHistory, feedbackHistory, resonanceHistory,
               eiHistory, runs, log, mktActionHistory, mktLog>>

-----------------------------------------------------------------------------
(* Bounds of the model *)

MaxHist == 4        \* longest history list handed to a core function
MaxCalls == 4       \* PrzAgent calls (run, reset) per behaviour
MaxMktCalls == 4    \* MarketingAgent.findResonantDevelopers calls per behaviour
MaxInFlight == 2    \* PrzAgent.run() calls in flight at once
MaxTicks == 2       \* clock advances per behaviour
MaxResets == 1      \* PrzAgent.reset() and MarketingAgent.clearHistory() calls per behaviour
MaxRepeatHist == 2  \* longest history list in a call that is made twice

-----------------------------------------------------------------------------
(* Numbers and strings *)

ONE == 1000

Max(a, b) == IF a >= b THEN a ELSE b
Min(a, b) == IF a <= b THEN a ELSE b
Abs(a) == IF a >= 0 THEN a ELSE 0 - a

SeqsUpTo(S, n) == UNION {[1..k -> S] : k \in 0..n}

IsWhitespace(c) == c \in {" ", "\t", "\n"}

\* String.prototype.toLowerCase, one character
LowerChar(c) ==
    CASE c = "A" -> "a"
      [] c = "B" -> "b"
      [] c = "C" -> "c"
      [] c = "D" -> "d"
      [] c = "E" -> "e"
      [] c = "F" -> "f"
      [] c = "G" -> "g"
      [] c = "H" -> "h"
      [] c = "I" -> "i"
      [] c = "J" -> "j"
      [] c = "K" -> "k"
      [] c = "L" -> "l"
      [] c = "M" -> "m"
      [] c = "N" -> "n"
      [] c = "O" -> "o"
      [] c = "P" -> "p"
      [] c = "Q" -> "q"
      [] c = "R" -> "r"
      [] c = "S" -> "s"
      [] c = "T" -> "t"
      [] c = "U" -> "u"
      [] c = "V" -> "v"
      [] c = "W" -> "w"
      [] c = "X" -> "x"
      [] c = "Y" -> "y"
      [] c = "Z" -> "z"
      [] OTHER -> c

toLowerCase(s) == [i \in 1..Len(s) |-> LowerChar(s[i])]

\* s.split(/\s+/): the pieces between maximal runs of whitespace; a leading or
\* trailing run leaves an empty piece, and "" splits into [""].
RECURSIVE SplitFrom(_, _, _)
SplitFrom(s, i, cur) ==
    IF i > Len(s) THEN <<cur>>
    ELSE IF IsWhitespace(s[i])
         THEN IF i > 1 /\ IsWhitespace(s[i - 1])
              THEN SplitFrom(s, i + 1, cur)
              ELSE <<cur>> \o SplitFrom(s, i + 1, <<>>)
         ELSE SplitFrom(s, i + 1, Append(cur, s[i]))

SplitWhitespace(s) == SplitFrom(s, 1, <<>>)

Range(f) == {f[i] : i \in DOMAIN f}

\* floor(sqrt(n)) for 0 <= n, found by bisection between lo and hi
RECURSIVE SqrtBetween(_, _, _)
SqrtBetween(n, lo, hi) ==
    IF lo >= hi THEN lo
    ELSE LET mid == (lo + hi + 1) \div 2
         IN  IF mid * mid <= n
             THEN SqrtBetween(n, mid, hi)
             ELSE SqrtBetween(n, lo, mid - 1)

\* Math.sqrt on integers; exact on perfect squares
Sqrt(n) == SqrtBetween(n, 0, n)

\* Math.sqrt of the quotient num/den (0 <= num <= den, den > 0), in thousandths
SqrtOfRatio(num, den) == SqrtBetween((num * ONE * ONE) \div den, 0, ONE)

RECURSIVE SumSeq(_)
SumSeq(s) == IF s = <<>> THEN 0 ELSE Head(s) + SumSeq(Tail(s))

-----------------------------------------------------------------------------
(* Pillar 3: GOOSEGUARD (lib/prz/gooseguard.ts) *)

LOOP_DETECTION_WINDOW_MS == 5 * 60 * 1000
SIMILARITY_THRESHOLD == 850
MAX_SIMILAR_ACTIONS == 3

\* interface Action
Action(id, type, payload, timestamp) ==
    [id |-> id, type |-> type, payload |-> payload, timestamp |-> timestamp]

\* A payload is `any`: a string or something else.
StringPayload(s) == [typeof |-> "string", text |-> s]
ObjectPayload == [typeof |-> "object"]

\* intersection.size / union.size, kept as the exact quotient num/den
calculateStringSimilarity(a, b) ==
    LET setA == Range(SplitWhitespace(toLowerCase(a)))
        setB == Range(SplitWhitespace(toLowerCase(b)))
        intersection == {x \in setA : x \in setB}
        union == setA \cup setB
    IN  [num |-> Cardinality(intersection), den |-> Cardinality(union)]

\* similarity > SIMILARITY_THRESHOLD, on the exact quotient num/den
SimilarityAbove(sim, threshold) == sim.num * ONE > threshold * sim.den

\* Mutant: the window test made inclusive.
InWindowInclusive(action, h) ==
    action.timestamp - h.timestamp <= LOOP_DETECTION_WINDOW_MS

\* Mutant: the window taken twice as long.
InWindowDoubled(action, h) ==
    action.timestamp - h.timestamp < 2 * LOOP_DETECTION_WINDOW_MS

InWindow(action, h) == action.timestamp - h.timestamp < LOOP_DETECTION_WINDOW_MS

IsSimilarAction(action, h) ==
    IF h.type # action.type THEN FALSE
    ELSE IF h.payload.typeof = "string" /\ action.payload.typeof = "string"
         THEN SimilarityAbove(
                  calculateStringSimilarity(h.payload.text, action.payload.text),
                  SIMILARITY_THRESHOLD)
         ELSE FALSE

LoopReason == "GOOSEGUARD: Redundant loop detected. Breaking to preserve flow."
LoopPivot == "Consider reformulating your request or exploring a different approach."

\* Mutant: a loop is seen only from the fourth similar action on.
beforeActionFromFourth(action, history) ==
    LET InWin(h) == InWindow(action, h)
        Similar(h) == IsSimilarAction(action, h)
        recentActions == SelectSeq(history, InWin)
        similarActions == SelectSeq(recentActions, Similar)
    IN  IF Len(similarActions) > MAX_SIMILAR_ACTIONS
        THEN [shouldProceed |-> FALSE, reason |-> LoopReason,
              suggestedPivot |-> LoopPivot]
        ELSE [shouldProceed |-> TRUE]

beforeAction(action, history) ==
    LET InWin(h) == InWindow(action, h)
        Similar(h) == IsSimilarAction(action, h)
        recentActions == SelectSeq(history, InWin)
        similarActions == SelectSeq(recentActions, Similar)
    IN  IF Len(similarActions) >= MAX_SIMILAR_ACTIONS
        THEN [shouldProceed |-> FALSE, reason |-> LoopReason,
              suggestedPivot |-> LoopPivot]
        ELSE [shouldProceed |-> TRUE]

\* Mutant: the types of the whole history compared, not of its last five entries.
shouldSuggestPivotWholeHistory(history) ==
    IF Len(history) < 5 THEN FALSE
    ELSE Cardinality(Range([i \in 1..Len(history) |-> history[i].type])) = 1

\* history.slice(-5), the types mapped out, distinct types counted
shouldSuggestPivot(history) ==
    IF Len(history) < 5 THEN FALSE
    ELSE LET recentActions == SubSeq(history, Len(history) - 4, Len(history))
             types == [i \in 1..Len(recentActions) |-> recentActions[i].type]
         IN  Cardinality(Range(types)) = 1

-----------------------------------------------------------------------------
(* Pillar 1: Resonance Engine (lib/prz/resonance-engine.ts) *)

RESONANCE_THRESHOLD == 950

\* dotProduct / (magA * magB) || 0, in thousandths.  b[i] || 0 reads a missing
\* component as 0; a zero magnitude gives 0/0 = NaN, which || 0 turns into 0.
\* The direction vectors are drawn with whole-number magnitudes.
VectorCosineSimilarity(a, b) ==
    LET dotProduct == SumSeq([i \in 1..Len(a) |-> a[i] * (IF i <= Len(b) THEN b[i] ELSE 0)])
        magA == Sqrt(SumSeq([i \in 1..Len(a) |-> a[i] * a[i]]))
        magB == Sqrt(SumSeq([i \in 1..Len(b) |-> b[i] * b[i]]))
    IN  IF magA * magB = 0 THEN 0
        ELSE IF dotProduct >= 0
             THEN (dotProduct * ONE) \div (magA * magB)
             ELSE 0 - ((0 - dotProduct) * ONE) \div (magA * magB)

\* context.patterns[0] || 0.5: a missing first pattern and a first pattern of 0
\* are both falsy
MagnitudeBaseline(patterns) ==
    IF Len(patterns) = 0 \/ patterns[1] = 0 THEN 500 ELSE patterns[1]

\* a*0.5 + b*0.3 + c*0.2 on thousandths
WeightedScore(directionSim, magnitudeMatch, frequencyMatch) ==
    LET tenfold == directionSim * 5 + magnitudeMatch * 3 + frequencyMatch * 2
    IN  IF tenfold >= 0 THEN tenfold \div 10 ELSE 0 - ((0 - tenfold) \div 10)

measureResonance(input, context) ==
    LET directionSim == VectorCosineSimilarity(input.direction, context.expectedDirection)
        magnitudeMatch == ONE - Abs(input.magnitude - MagnitudeBaseline(context.patterns))
        frequencyMatch == ONE - Abs(input.frequency - context.systemFrequency)
        score == WeightedScore(directionSim, magnitudeMatch, frequencyMatch)
    IN  [score |-> score, directionSim |-> directionSim,
         magnitudeMatch |-> magnitudeMatch, frequencyMatch |-> frequencyMatch,
         threshold |-> RESONANCE_THRESHOLD]

shouldCrystallize(result) == result.score >= result.threshold

-----------------------------------------------------------------------------
(* Pillar 6: Harmonic Field Matching (lib/harmonic-field.ts) *)

WordChars ==
    { "a", "b", "c", "d", "e", "f", "g", "h", "i", "j", "k", "l", "m",
      "n", "o", "p", "q", "r", "s", "t", "u", "v", "w", "x", "y", "z",
      "A", "B", "C", "D", "E", "F", "G", "H", "I", "J", "K", "L", "M",
      "N", "O", "P", "Q", "R", "S", "T", "U", "V", "W", "X", "Y", "Z",
      "0", "1", "2", "3", "4", "5", "6", "7", "8", "9", "_" }

\* .replace(/[^\w\s]/g, ' ')
ReplaceNonWord(s) ==
    [i \in 1..Len(s) |-> IF s[i] \in WordChars \/ IsWhitespace(s[i]) THEN s[i] ELSE " "]

LongerThanTwo(t) == Len(t) > 2

tokenize(text) ==
    SelectSeq(SplitWhitespace(ReplaceNonWord(toLowerCase(text))), LongerThanTwo)

\* intersection.size / union.size in thousandths (rounded down), 0 for an empty union
\* Mutant: the shared tokens measured against the first list alone.
calculateKeywordOverlapOfFirst(tokensA, tokensB) ==
    LET setA == Range(tokensA)
        setB == Range(tokensB)
        intersection == {x \in setA : x \in setB}
    IN  IF Cardinality(setA) > 0
        THEN (Cardinality(intersection) * ONE) \div Cardinality(setA)
        ELSE 0

calculateKeywordOverlap(tokensA, tokensB) ==
    LET setA == Range(tokensA)
        setB == Range(tokensB)
        intersection == {x \in setA : x \in setB}
        union == setA \cup setB
    IN  IF Cardinality(union) > 0
        THEN (Cardinality(intersection) * ONE) \div Cardinality(union)
        ELSE 0

createFrequencyVector(tokens) ==
    [t \in Range(tokens) |-> Cardinality({i \in 1..Len(tokens) : tokens[i] = t})]

\* the sum of f[x] over x in S
RECURSIVE SumOver(_, _)
SumOver(S, f) ==
    IF S = {} THEN 0
    ELSE LET x == CHOOSE y \in S : TRUE
         IN  f[x] + SumOver(S \ {x}, f)

\* dotProduct / (sqrt(magA) * sqrt(magB)) in thousandths (rounded down), 0 when
\* the magnitude is 0.  Counts are >= 0, so the quotient is the square root of
\* dotProduct^2 / (magA * magB).
FrequencyCosineSimilarity(freqA, freqB) ==
    LET allTokens == DOMAIN freqA \cup DOMAIN freqB
        A(t) == IF t \in DOMAIN freqA THEN freqA[t] ELSE 0
        B(t) == IF t \in DOMAIN freqB THEN freqB[t] ELSE 0
        dotProduct == SumOver(allTokens, [t \in allTokens |-> A(t) * B(t)])
        magA == SumOver(allTokens, [t \in allTokens |-> A(t) * A(t)])
        magB == SumOver(allTokens, [t \in allTokens |-> B(t) * B(t)])
    IN  IF magA * magB > 0
        THEN SqrtOfRatio(dotProduct * dotProduct, magA * magB)
        ELSE 0

calculateHarmonicAlignment(tokensA, tokensB) ==
    FrequencyCosineSimilarity(createFrequencyVector(tokensA), createFrequencyVector(tokensB))

NaN == 0 - 1000000

\* Math.pow(min/max, 0.5) in thousandths (rounded down); two empty strings give
\* 0/0, which is NaN
calculateIntentMagnitude(requestA, requestB) ==
    IF Max(Len(requestA), Len(requestB)) = 0 THEN NaN
    ELSE SqrtOfRatio(Min(Len(requestA), Len(requestB)), Max(Len(requestA), Len(requestB)))

\* (keywordScore * 0.4) + (harmonicScore * 0.4) + (magnitudeScore * 0.2); a NaN
\* term makes the sum NaN
calculatePatternMatchConfidence(userRequest, pattern) ==
    LET userTokens == tokenize(userRequest)
        patternTokens == tokenize(pattern)
        keywordScore == calculateKeywordOverlap(userTokens, patternTokens)
        harmonicScore == calculateHarmonicAlignment(userTokens, patternTokens)
        magnitudeScore == calculateIntentMagnitude(userRequest, pattern)
    IN  IF magnitudeScore = NaN THEN NaN
        ELSE (keywordScore * 4 + harmonicScore * 4 + magnitudeScore * 2) \div 10

-----------------------------------------------------------------------------
(* Pillar 4: ZAK Echo Registry (lib/zak-echoes.ts): the patterns, in order *)

PatternRefactor ==
    <<"R", "e", "f", "a", "c", "t", "o", "r", " ", "R", "e", "a", "c", "t", " ", "c",
      "o", "m", "p", "o", "n", "e", "n", "t", " ", "w", "i", "t", "h", " ", "i", "m",
      "p", "r", "o", "v", "e", "d", " ", "s", "t", "r", "u", "c", "t", "u", "r", "e">>

PatternApiDocs ==
    <<"G", "e", "n", "e", "r", "a", "t", "e", " ", "c", "o", "m", "p", "r", "e", "h",
      "e", "n", "s", "i", "v", "e", " ", "A", "P", "I", " ", "d", "o", "c", "u", "m",
      "e", "n", "t", "a", "t", "i", "o", "n">>

PatternSecurityAudit ==
    <<"P", "e", "r", "f", "o", "r", "m", " ", "s", "e", "c", "u", "r", "i", "t", "y",
      " ", "a", "u", "d", "i", "t", " ", "a", "n", "d", " ", "i", "d", "e", "n", "t",
      "i", "f", "y", " ", "v", "u", "l", "n", "e", "r", "a", "b", "i", "l", "i", "t",
      "i", "e", "s">>

PatternTestSuite ==
    <<"C", "r", "e", "a", "t", "e", " ", "t", "e", "s", "t", " ", "s", "u", "i", "t",
      "e", " ", "f", "o", "r", " ", "e", "x", "i", "s", "t", "i", "n", "g", " ", "c",
      "o", "d", "e">>

PatternOptimize ==
    <<"O", "p", "t", "i", "m", "i", "z", "e", " ", "c", "o", "d", "e", " ", "f", "o",
      "r", " ", "b", "e", "t", "t", "e", "r", " ", "p", "e", "r", "f", "o", "r", "m",
      "a", "n", "c", "e">>

PatternDataReport ==
    <<"A", "n", "a", "l", "y", "z", "e", " ", "d", "a", "t", "a", " ", "a", "n", "d",
      " ", "c", "r", "e", "a", "t", "e", " ", "c", "o", "m", "p", "r", "e", "h", "e",
      "n", "s", "i", "v", "e", " ", "r", "e", "p", "o", "r", "t">>

PatternOutreach ==
    <<"F", "i", "n", "d", " ", "a", "n", "d", " ", "e", "n", "g", "a", "g", "e", " ",
      "d", "e", "v", "e", "l", "o", "p", "e", "r", "s", " ", "w", "h", "o", " ", "r",
      "e", "s", "o", "n", "a", "t", "e", " ", "w", "i", "t", "h", " ", "p", "r", "o",
      "j", "e", "c", "t", " ", "v", "i", "s", "i", "o", "n">>

zakEchoRegistry ==
    << PatternRefactor, PatternApiDocs, PatternSecurityAudit, PatternTestSuite,
       PatternOptimize, PatternDataReport, PatternOutreach >>

-----------------------------------------------------------------------------
(* Pillar 1 extension: User Feedback Engine (lib/prz/user-feedback.ts) *)

FEEDBACK_LOOP_WINDOW_MS == 10 * 60 * 1000
MIN_FEEDBACK_CONFIDENCE == 700
POSITIVE_FEEDBACK_BOOST == 50
NEGATIVE_FEEDBACK_PENALTY == 100
CRYSTAL_THRESHOLD == 950

\* The characters of the FeedbackSentiment and FeedbackType literals
SentimentText(sentiment) ==
    CASE sentiment = "positive" -> <<"p", "o", "s", "i", "t", "i", "v", "e">>
      [] sentiment = "neutral" -> <<"n", "e", "u", "t", "r", "a", "l">>
      [] sentiment = "negative" -> <<"n", "e", "g", "a", "t", "i", "v", "e">>

TypeText(type) ==
    CASE type = "satisfaction" ->
            <<"s", "a", "t", "i", "s", "f", "a", "c", "t", "i", "o", "n">>
      [] type = "accuracy" -> <<"a", "c", "c", "u", "r", "a", "c", "y">>
      [] type = "completeness" ->
            <<"c", "o", "m", "p", "l", "e", "t", "e", "n", "e", "s", "s">>
      [] type = "usefulness" -> <<"u", "s", "e", "f", "u", "l", "n", "e", "s", "s">>

\* Mutant: the sentiment left out of the payload.
FeedbackPayloadNoSentiment(f) ==
    f.artifactId \o <<":">> \o TypeText(f.type)

\* `${f.artifactId}:${f.sentiment}:${f.type}`
FeedbackPayload(f) ==
    f.artifactId \o <<":">> \o SentimentText(f.sentiment) \o <<":">> \o TypeText(f.type)

FeedbackAction(f) ==
    Action(f.id, "user_feedback", StringPayload(FeedbackPayload(f)), f.timestamp)

\* Number.prototype.toFixed(2) of a value in thousandths, in hundredths
toFixed2(x) == (x + 5) \div 10

RedundantFeedbackReason == <<"GOOSEGUARD: Redundant feedback pattern detected">>
LowConfidenceReason(confidence) ==
    <<"Feedback confidence ", toFixed2(confidence),
      " below minimum threshold ", MIN_FEEDBACK_CONFIDENCE>>
LowConfidenceAction == "Please provide more specific feedback to increase confidence"

generateFeedbackResponse(f) ==
    CASE f.sentiment = "positive" ->
            "Positive feedback accepted. Crystallizing for Green Lane execution."
      [] f.sentiment = "negative" ->
            "Negative feedback received. Analyzing for improvement opportunities."
      [] f.sentiment = "neutral" ->
            "Neutral feedback noted. Maintaining current trajectory."

\* Mutant: negative feedback penalised by the boost instead of the penalty.
SentimentAdjustmentBoostOnly(f) ==
    IF f.sentiment = "positive"
    THEN (POSITIVE_FEEDBACK_BOOST * f.intensity) \div ONE
    ELSE IF f.sentiment = "negative"
         THEN 0 - ((POSITIVE_FEEDBACK_BOOST * f.intensity) \div ONE)
         ELSE 0

\* Mutant: every feedback that is not positive is penalised.
SentimentAdjustmentNoNeutral(f) ==
    IF f.sentiment = "positive"
    THEN (POSITIVE_FEEDBACK_BOOST * f.intensity) \div ONE
    ELSE 0 - ((NEGATIVE_FEEDBACK_PENALTY * f.intensity) \div ONE)

\* The signed adjustment of one feedback entry, in thousandths
SentimentAdjustment(f) ==
    IF f.sentiment = "positive"
    THEN (POSITIVE_FEEDBACK_BOOST * f.intensity) \div ONE
    ELSE IF f.sentiment = "negative"
         THEN 0 - ((NEGATIVE_FEEDBACK_PENALTY * f.intensity) \div ONE)
         ELSE 0

\* Mutant: the confidence test made before the loop guard is consulted.
processFeedbackConfidenceFirst(feedback, history) ==
    LET action == FeedbackAction(feedback)
        feedbackActions == [i \in 1..Len(history) |-> FeedbackAction(history[i])]
        guard == beforeAction(action, feedbackActions)
    IN  IF feedback.confidence < MIN_FEEDBACK_CONFIDENCE
        THEN [accepted |-> FALSE,
              reason |-> LowConfidenceReason(feedback.confidence),
              suggestedAction |-> LowConfidenceAction]
        ELSE IF ~guard.shouldProceed
             THEN [accepted |-> FALSE, reason |-> RedundantFeedbackReason,
                   suggestedAction |-> guard.suggestedPivot]
             ELSE [accepted |-> TRUE,
                   adjustedResonance |-> SentimentAdjustment(feedback),
                   suggestedAction |-> generateFeedbackResponse(feedback)]

processFeedback(feedback, history) ==
    LET action == FeedbackAction(feedback)
        feedbackActions == [i \in 1..Len(history) |-> FeedbackAction(history[i])]
        guard == beforeAction(action, feedbackActions)
    IN  IF ~guard.shouldProceed
        THEN [accepted |-> FALSE, reason |-> RedundantFeedbackReason,
              suggestedAction |-> guard.suggestedPivot]
        ELSE IF feedback.confidence < MIN_FEEDBACK_CONFIDENCE
             THEN [accepted |-> FALSE,
                   reason |-> LowConfidenceReason(feedback.confidence),
                   suggestedAction |-> LowConfidenceAction]
             ELSE [accepted |-> TRUE,
                   adjustedResonance |-> SentimentAdjustment(feedback),
                   suggestedAction |-> generateFeedbackResponse(feedback)]

\* A FeedbackAggregation is told from a UserFeedback by its resonanceAdjustment key.
adjustResonanceWithFeedback(originalResonance, feedback) ==
    LET adjustment ==
            IF "resonanceAdjustment" \in DOMAIN feedback
            THEN feedback.resonanceAdjustment
            ELSE SentimentAdjustment(feedback)
    IN  Max(0, Min(ONE, originalResonance + adjustment))

\* Mutant: the threshold itself not counted as crystal.
StateOfStrict(resonance) == IF resonance > CRYSTAL_THRESHOLD THEN "crystal" ELSE "vapor"

\* resonance >= 0.95 ? 'crystal' : 'vapor'
StateOf(resonance) == IF resonance >= CRYSTAL_THRESHOLD THEN "crystal" ELSE "vapor"

shouldTransitionState(feedback, currentResonance) ==
    LET adjustedResonance == adjustResonanceWithFeedback(currentResonance, feedback)
        currentState == StateOf(currentResonance)
        potentialState == StateOf(adjustedResonance)
    IN  IF currentState # potentialState
        THEN [shouldTransition |-> TRUE, newState |-> potentialState,
              reason |-> IF potentialState = "crystal"
                         THEN <<"Positive feedback increased resonance to ",
                                toFixed2(adjustedResonance), " (>=0.95)">>
                         ELSE <<"Negative feedback decreased resonance to ",
                                toFixed2(adjustedResonance), " (<0.95)">>]
        ELSE [shouldTransition |-> FALSE, newState |-> currentState,
              reason |-> <<"Feedback did not trigger state transition. Resonance: ",
                           toFixed2(adjustedResonance)>>]

-----------------------------------------------------------------------------
(* Request texts *)

TextAB == <<"a", " ", "b">>            \* "a b"
TextBA == <<"B", " ", " ", "a">>       \* "B  a": the same tokens as "a b"
TextA == <<"a">>                       \* "a"
TextUpperA == <<"A">>                  \* "A"
TextC == <<"c">>                       \* "c"
TextATrail == <<"a", " ">>             \* "a ": splits into "a" and ""
TextEmpty == <<>>                      \* ""

\* The texts requests are drawn from: short ones that match no pattern, the
\* empty string, and one registry pattern word for word.
RequestTexts ==
    {TextAB, TextBA, TextA, TextUpperA, TextC, TextATrail, TextEmpty, PatternTestSuite}

-----------------------------------------------------------------------------
(* Pipeline runner (lib/pipeline.ts) *)

PATTERN_CONFIDENCE_THRESHOLD == 850
GREEN_LANE_THRESHOLD == 950

\* The first element of the registry sorted by descending confidence.  The sort
\* is stable, so among equal confidences the earliest pattern comes first.
SortedFirst(userRequest) ==
    LET confidence == [i \in 1..Len(zakEchoRegistry) |->
                          calculatePatternMatchConfidence(userRequest, zakEchoRegistry[i])]
        best == CHOOSE i \in 1..Len(zakEchoRegistry) :
                    /\ \A j \in 1..Len(zakEchoRegistry) : confidence[j] <= confidence[i]
                    /\ \A j \in 1..(i - 1) : confidence[j] < confidence[i]
    IN  [pattern |-> zakEchoRegistry[best], confidence |-> confidence[best]]

\* The best match depends on the request text alone; it is computed once for
\* each text a request is drawn from.
BestMatchOf == [userRequest \in RequestTexts |-> SortedFirst(userRequest)]

BestMatch(userRequest) == BestMatchOf[userRequest]

\* `PRZ Deliverable for: ${userRequest}\n`, then `Applied Pattern: ${pattern}\n`
\* when the best match is confident enough; kept as the list of its parts
Deliverable(userRequest) ==
    LET bestMatch == BestMatch(userRequest)
    IN  <<"PRZ Deliverable for: ", userRequest, "\n">> \o
        (IF bestMatch.confidence >= PATTERN_CONFIDENCE_THRESHOLD
         THEN <<"Applied Pattern: ", bestMatch.pattern, "\n">>
         ELSE <<>>)

\* Mutant: a synthetic input whose magnitude is off the pattern baseline.
SyntheticInputOffBaseline(userRequest) ==
    [content |-> userRequest, direction |-> <<1, 0>>, magnitude |-> 700, frequency |-> 500]

SyntheticInput(userRequest) ==
    [content |-> userRequest, direction |-> <<1, 0>>, magnitude |-> 900, frequency |-> 500]

SyntheticContext ==
    [state |-> "active", patterns |-> <<900>>, expectedDirection |-> <<1, 0>>,
     systemFrequency |-> 500]

\* Mutant: the threshold itself left out of the green lane.
TierOfStrict(score) == IF score > GREEN_LANE_THRESHOLD THEN "GREEN LANE" ELSE "MONITORED"

TierOf(score) == IF score >= GREEN_LANE_THRESHOLD THEN "GREEN LANE" ELSE "MONITORED"

Thrown(message) == [threw |-> TRUE, message |-> message]

\* Mutant: the pipeline run without consulting the loop guard.
runPrzPipelineUnguarded(userRequest, history, t) ==
    LET resonance == measureResonance(SyntheticInput(userRequest), SyntheticContext)
    IN  [threw |-> FALSE,
         deliverable |-> Deliverable(userRequest),
         resonance |-> resonance,
         crystallized |-> shouldCrystallize(resonance),
         tier |-> TierOf(resonance.score),
         artifactId |-> <<"artifact-", t>>]

\* Mutant: the pipeline offers its candidate under the type the agent records.
runPrzPipelineAsUserRequest(userRequest, history, t) ==
    LET guard == beforeAction(Action("current", "user_request",
                                     StringPayload(userRequest), t),
                              history)
        resonance == measureResonance(SyntheticInput(userRequest), SyntheticContext)
    IN  IF ~guard.shouldProceed
        THEN Thrown(guard.reason)
        ELSE [threw |-> FALSE,
              deliverable |-> Deliverable(userRequest),
              resonance |-> resonance,
              crystallized |-> shouldCrystallize(resonance),
              tier |-> TierOf(resonance.score),
              artifactId |-> <<"artifact-", t>>]

\* t is the value of Date.now() during the call.  A rejected promise is the
\* record Thrown(message).
runPrzPipeline(userRequest, history, t) ==
    LET guard == beforeAction(Action("current", "request", StringPayload(userRequest), t),
                              history)
        resonance == measureResonance(SyntheticInput(userRequest), SyntheticContext)
    IN  IF ~guard.shouldProceed
        THEN Thrown(guard.reason)
        ELSE [threw |-> FALSE,
              deliverable |-> Deliverable(userRequest),
              resonance |-> resonance,
              crystallized |-> shouldCrystallize(resonance),
              tier |-> TierOf(resonance.score),
              artifactId |-> <<"artifact-", t>>]

\* An optional UserFeedback argument is <<>> when absent and <<f>> when given.
\* Mutant: accepted feedback adjusts the score but the tier is kept.
FeedbackStageKeepTier(pipelineResult, feedback, priorFeedback) ==
    IF feedback = <<>>
    THEN [feedbackAccepted |-> FALSE] @@ pipelineResult
    ELSE LET feedbackResult == processFeedback(feedback[1], priorFeedback)
         IN  IF ~feedbackResult.accepted
             THEN [feedbackAccepted |-> FALSE,
                   suggestedAction |-> feedbackResult.suggestedAction] @@ pipelineResult
             ELSE LET adjustedResonance ==
                          adjustResonanceWithFeedback(pipelineResult.resonance.score,
                                                      feedback[1])
                      transition ==
                          shouldTransitionState(feedback[1], pipelineResult.resonance.score)
                  IN  [feedbackAccepted |-> TRUE,
                       adjustedResonance |-> adjustedResonance,
                       stateTransition |-> [occurred |-> transition.shouldTransition,
                                            newState |-> transition.newState,
                                            reason |-> transition.reason],
                       suggestedAction |-> feedbackResult.suggestedAction] @@ pipelineResult

\* Mutant: feedback that was not accepted still adjusts the score.
FeedbackStageAdjustAlways(pipelineResult, feedback, priorFeedback) ==
    IF feedback = <<>>
    THEN [feedbackAccepted |-> FALSE] @@ pipelineResult
    ELSE LET feedbackResult == processFeedback(feedback[1], priorFeedback)
             adjustedResonance ==
                 adjustResonanceWithFeedback(pipelineResult.resonance.score, feedback[1])
         IN  [feedbackAccepted |-> feedbackResult.accepted,
              adjustedResonance |-> adjustedResonance,
              suggestedAction |-> feedbackResult.suggestedAction] @@ pipelineResult

\* runPrzPipelineWithFeedback after its await of runPrzPipeline has resolved
FeedbackStage(pipelineResult, feedback, priorFeedback) ==
    IF feedback = <<>>
    THEN [feedbackAccepted |-> FALSE] @@ pipelineResult
    ELSE LET feedbackResult == processFeedback(feedback[1], priorFeedback)
         IN  IF ~feedbackResult.accepted
             THEN [feedbackAccepted |-> FALSE,
                   suggestedAction |-> feedbackResult.suggestedAction] @@ pipelineResult
             ELSE LET adjustedResonance ==
                          adjustResonanceWithFeedback(pipelineResult.resonance.score,
                                                      feedback[1])
                      transition ==
                          shouldTransitionState(feedback[1], pipelineResult.resonance.score)
                      newTier == TierOf(adjustedResonance)
                  IN  [feedbackAccepted |-> TRUE,
                       adjustedResonance |-> adjustedResonance,
                       tier |-> newTier,
                       crystallized |-> adjustedResonance >= GREEN_LANE_THRESHOLD,
                       stateTransition |-> [occurred |-> transition.shouldTransition,
                                            newState |-> transition.newState,
                                            reason |-> transition.reason],
                       suggestedAction |-> feedbackResult.suggestedAction] @@ pipelineResult

\* Both lists are read at one instant here; PrzAgent, whose lists can change
\* across the await, runs the two stages as separate steps.
runPrzPipelineWithFeedback(userRequest, feedback, history, priorFeedback, t) ==
    LET pipelineResult == runPrzPipeline(userRequest, history, t)
    IN  IF pipelineResult.threw
        THEN pipelineResult
        ELSE FeedbackStage(pipelineResult, feedback, priorFeedback)

-----------------------------------------------------------------------------
(* The argument lists after a call.  A JavaScript array is passed by reference,
   so what the callee does to it is seen by the caller. *)

\* beforeAction: history.filter, and filter again on the array that built; both
\* build a new array and leave the receiver alone.
HistoryAfterBeforeAction(action, history) == history

\* processFeedback: history.map builds the array the guard receives.
\* and history is used nowhere else.
HistoryAfterProcessFeedback(feedback, history) == history

\* Mutant: the pipeline records the request it was given in the supplied list.
HistoryAfterRunPrzPipelineRecording(userRequest, history, t) ==
    Append(history, Action("current", "request", StringPayload(userRequest), t))

\* runPrzPipeline: history is handed to beforeAction and used nowhere else.
HistoryAfterRunPrzPipeline(userRequest, history, t) ==
    HistoryAfterBeforeAction(Action("current", "request", StringPayload(userRequest), t),
                             history)

\* runPrzPipelineWithFeedback: feedbackHistory is handed to processFeedback when
\* the pipeline resolved and a feedback was given, and used nowhere else.
FeedbackHistoryAfterFeedbackStage(pipelineResult, feedback, priorFeedback) ==
    IF pipelineResult.threw \/ feedback = <<>>
    THEN priorFeedback
    ELSE HistoryAfterProcessFeedback(feedback[1], priorFeedback)

-----------------------------------------------------------------------------
(* Guard inputs *)

\* The candidate is stamped one millisecond after a full window has passed.
GuardNow == LOOP_DETECTION_WINDOW_MS + 1

GuardCandidates ==
    { Action("current", "request", StringPayload(TextAB), GuardNow),
      Action("current", "request", ObjectPayload, GuardNow),
      Action("current", "other", StringPayload(TextBA), GuardNow),
      Action("current", "request", StringPayload(TextATrail), GuardNow) }

GuardEntries ==
    { Action("h", "request", StringPayload(TextAB), 1),             \* exactly 5 minutes older
      Action("h", "request", StringPayload(TextAB), 2),             \* 1 ms inside the window
      Action("h", "request", StringPayload(TextBA), GuardNow + 1),  \* stamped later
      Action("h", "other", StringPayload(TextAB), 2),
      Action("h", "request", ObjectPayload, 2),
      Action("h", "request", StringPayload(TextA), GuardNow),
      Action("h", "request", StringPayload(TextAB), GuardNow) }

-----------------------------------------------------------------------------
(* Feedback inputs *)

\* interface UserFeedback (the optional comment is read nowhere)
Feedback(id, artifactId, sentiment, type, confidence, intensity, timestamp) ==
    [id |-> id, artifactId |-> artifactId, sentiment |-> sentiment, type |-> type,
     confidence |-> confidence, intensity |-> intensity, timestamp |-> timestamp]

IdA == <<"a", "1">>                    \* "a1"
IdUpperA == <<"A", "1">>               \* "A1"
IdB == <<"b", "1">>                    \* "b1"
IdXA == <<"x", " ", "a">>              \* "x a"
IdXWideA == <<"x", " ", " ", "a">>     \* "x  a": another id, the same tokens

Confidences == {500, 700, 900}

FeedbackCandidates ==
    { Feedback("f", IdA, "positive", "accuracy", c, 800, GuardNow) : c \in Confidences }
    \cup { Feedback("f", IdXA, "positive", "accuracy", 900, 800, GuardNow) }

FeedbackEntries ==
    { Feedback("h", IdA, "positive", "accuracy", 900, 800, 1),        \* exactly 5 minutes older
      Feedback("h", IdA, "positive", "accuracy", 900, 800, 2),
      Feedback("h", IdUpperA, "positive", "accuracy", 900, 800, GuardNow),
      Feedback("h", IdB, "positive", "accuracy", 900, 800, 2),
      Feedback("h", IdA, "negative", "accuracy", 900, 800, 2),
      Feedback("h", IdA, "positive", "completeness", 900, 800, 2),
      Feedback("h", IdXWideA, "positive", "accuracy", 900, 800, 2) }

\* The adjustment aggregateFeedback derives from its counts and mean intensity
AggregationOf(positiveCount, negativeCount, neutralCount, averageIntensity) ==
    [totalFeedback |-> positiveCount + negativeCount + neutralCount,
     positiveCount |-> positiveCount,
     negativeCount |-> negativeCount,
     neutralCount |-> neutralCount,
     averageIntensity |-> averageIntensity,
     resonanceAdjustment |->
        IF positiveCount * POSITIVE_FEEDBACK_BOOST >= negativeCount * NEGATIVE_FEEDBACK_PENALTY
        THEN ((positiveCount * POSITIVE_FEEDBACK_BOOST
                 - negativeCount * NEGATIVE_FEEDBACK_PENALTY) * averageIntensity) \div ONE
        ELSE 0 - (((negativeCount * NEGATIVE_FEEDBACK_PENALTY
                      - positiveCount * POSITIVE_FEEDBACK_BOOST) * averageIntensity) \div ONE)]

Intensities == {0, 200, 500, 800, 1000}

AdjustFeedbacks ==
    { Feedback("f", IdA, s, "accuracy", 900, i, GuardNow) :
        s \in {"positive", "neutral", "negative"}, i \in Intensities }
    \cup { Feedback("f", IdA, "negative", "accuracy", 500, 1000, GuardNow) }
    \cup { AggregationOf(2, 1, 0, 800),      \* adjustment 0
           AggregationOf(1, 0, 1, 800),      \* +0.04
           AggregationOf(0, 1, 0, 1000),     \* -0.10
           AggregationOf(30, 0, 0, 1000),    \* +1.5
           AggregationOf(0, 20, 0, 1000) }   \* -2.0

Resonances == {0 - 200, 0, 30, 50, 850, 900, 910, 940, 949, 950, 960, 970, 1000, 1200}

-----------------------------------------------------------------------------
(* Pipeline inputs *)

\* One request matches no pattern, one is a registry pattern word for word,
\* one is the empty string.
PipelineRequests == {TextAB, PatternTestSuite, TextEmpty}

PipelineEntries ==
    { Action("h", "request", StringPayload(TextAB), 1),        \* exactly 5 minutes older
      Action("h", "request", StringPayload(TextAB), 2),
      Action("h", "user_request", StringPayload(TextAB), 2) }

PipelineFeedbacks ==
    { Feedback("f", IdA, "positive", "accuracy", 900, 800, GuardNow),
      Feedback("f", IdA, "positive", "accuracy", 500, 800, GuardNow),
      Feedback("f", IdA, "negative", "accuracy", 900, 1000, GuardNow),  \* 1.0 -> 0.90
      Feedback("f", IdA, "negative", "accuracy", 900, 500, GuardNow),   \* 1.0 -> 0.95
      Feedback("f", IdA, "neutral", "accuracy", 900, 800, GuardNow) }

OptionalFeedbacks == {<<>>} \cup {<<f>> : f \in PipelineFeedbacks}

\* Earlier negative feedback on the same artifact: three of them make a fourth
\* redundant, and leave feedback of another sentiment alone.
PriorFeedbackEntries ==
    { Feedback("h", IdA, "negative", "accuracy", 900, 1000, 2) }

-----------------------------------------------------------------------------
(* Calls of the core functions on supplied arguments *)

\* Each behaviour of these specifications is one call: the arguments are drawn
\* from the bounded sets and the function is applied to them.
NoCall == [fn |-> "none"]

CallBeforeAction ==
    /\ call = NoCall
    /\ \E action \in GuardCandidates, history \in SeqsUpTo(GuardEntries, MaxHist) :
          call' = [fn |-> "beforeAction", action |-> action, history |-> history,
                   result |-> beforeAction(action, history)]
    /\ UNCHANGED agentVars

NoAgent == "none"

AgentInit ==
    /\ now = 0
    /\ actionHistory = <<>>
    /\ feedbackHistory = <<>>
    /\ resonanceHistory = <<>>
    /\ eiHistory = <<>>
    /\ runs = <<>>
    /\ log = <<>>
    /\ mktActionHistory = <<>>
    /\ mktLog = <<>>

CallProcessFeedback ==
    /\ call = NoCall
    /\ \E feedback \in FeedbackCandidates, history \in SeqsUpTo(FeedbackEntries, MaxHist) :
          call' = [fn |-> "processFeedback", feedback |-> feedback, history |-> history,
                   result |-> processFeedback(feedback, history)]
    /\ UNCHANGED agentVars

CallAdjustResonanceWithFeedback ==
    /\ call = NoCall
    /\ \E r \in Resonances, feedback \in AdjustFeedbacks :
          call' = [fn |-> "adjustResonanceWithFeedback",
                   originalResonance |-> r, feedback |-> feedback,
                   result |-> adjustResonanceWithFeedback(r, feedback)]
    /\ UNCHANGED agentVars

CallShouldTransitionState ==
    /\ call = NoCall
    /\ \E r \in Resonances, feedback \in AdjustFeedbacks :
          call' = [fn |-> "shouldTransitionState",
                   currentResonance |-> r, feedback |-> feedback,
                   result |-> shouldTransitionState(feedback, r)]
    /\ UNCHANGED agentVars

CallRunPrzPipeline ==
    /\ call = NoCall
    /\ \E userRequest \in PipelineRequests,
          history \in SeqsUpTo(PipelineEntries, MaxHist) :
          call' = [fn |-> "runPrzPipeline", userRequest |-> userRequest,
                   history |-> history, now |-> GuardNow,
                   result |-> runPrzPipeline(userRequest, history, GuardNow),
                   historyAfter |->
                       HistoryAfterRunPrzPipeline(userRequest, history, GuardNow)]
    /\ UNCHANGED agentVars

CallRunPrzPipelineWithFeedback ==
    /\ call = NoCall
    /\ \E userRequest \in PipelineRequests,
          feedback \in OptionalFeedbacks,
          history \in SeqsUpTo(PipelineEntries, MaxHist),
          priorFeedback \in SeqsUpTo(PriorFeedbackEntries, MaxHist) :
          call' = [fn |-> "runPrzPipelineWithFeedback", userRequest |-> userRequest,
                   feedback |-> feedback, history |-> history,
                   priorFeedback |-> priorFeedback, now |-> GuardNow,
                   result |-> runPrzPipelineWithFeedback(userRequest, feedback, history,
                                                         priorFeedback, GuardNow),
                   historyAfter |->
                       HistoryAfterRunPrzPipeline(userRequest, history, GuardNow),
                   priorFeedbackAfter |->
                       FeedbackHistoryAfterFeedbackStage(
                           runPrzPipeline(userRequest, history, GuardNow),
                           feedback, priorFeedback)]
    /\ UNCHANGED agentVars

InitGuard == call = NoCall /\ constructed = NoAgent /\ AgentInit
NextGuard == CallBeforeAction
SpecGuard == InitGuard /\ [][NextGuard]_vars

InitFeedback == call = NoCall /\ constructed = NoAgent /\ AgentInit
NextFeedback == CallProcessFeedback
SpecFeedback == InitFeedback /\ [][NextFeedback]_vars

InitAdjust == call = NoCall /\ constructed = NoAgent /\ AgentInit
NextAdjust == CallAdjustResonanceWithFeedback \/ CallShouldTransitionState
SpecAdjust == InitAdjust /\ [][NextAdjust]_vars

InitPipeline == call = NoCall /\ constructed = NoAgent /\ AgentInit
NextPipeline == CallRunPrzPipeline \/ CallRunPrzPipelineWithFeedback
SpecPipeline == InitPipeline /\ [][NextPipeline]_vars

-----------------------------------------------------------------------------
(* Calls of shouldSuggestPivot *)

MaxPivotHist == 6     \* longest history list handed to shouldSuggestPivot

\* Two entries of one type that differ in payload and timestamp, and one of
\* another type
PivotEntries ==
    { Action("h", "request", StringPayload(TextAB), 1),
      Action("h", "request", ObjectPayload, GuardNow),
      Action("h", "search", StringPayload(TextAB), 1) }

CallShouldSuggestPivot ==
    /\ call = NoCall
    /\ \E history \in SeqsUpTo(PivotEntries, MaxPivotHist) :
          call' = [fn |-> "shouldSuggestPivot", history |-> history,
                   result |-> shouldSuggestPivot(history)]
    /\ UNCHANGED agentVars

InitPivot == call = NoCall /\ constructed = NoAgent /\ AgentInit
NextPivot == CallShouldSuggestPivot
SpecPivot == InitPivot /\ [][NextPivot]_vars

-----------------------------------------------------------------------------
(* Calls of the Resonance Engine *)

\* Direction vectors: the axes, an opposite, the zero vector, two oblique
\* vectors of length 5, the empty vector and a vector of one component
DirectionVectors ==
    { <<1, 0>>, <<0, 1>>, <<0 - 1, 0>>, <<0, 0>>, <<3, 4>>, <<4, 3>>, <<>>, <<2>> }

UnitValues == {0, 500, 900, ONE}

PatternLists == {<<>>, <<0>>, <<500>>, <<ONE>>, <<900, 0>>}

CallMeasureResonance ==
    /\ call = NoCall
    /\ \E direction \in DirectionVectors, expectedDirection \in DirectionVectors,
          magnitude \in UnitValues, frequency \in UnitValues,
          patterns \in PatternLists, systemFrequency \in UnitValues :
          LET input == [content |-> TextAB, direction |-> direction,
                        magnitude |-> magnitude, frequency |-> frequency]
              context == [state |-> "active", patterns |-> patterns,
                          expectedDirection |-> expectedDirection,
                          systemFrequency |-> systemFrequency]
          IN  call' = [fn |-> "measureResonance", input |-> input, context |-> context,
                       result |-> measureResonance(input, context)]
    /\ UNCHANGED agentVars

InitResonance == call = NoCall /\ constructed = NoAgent /\ AgentInit
NextResonance == CallMeasureResonance
SpecResonance == InitResonance /\ [][NextResonance]_vars

-----------------------------------------------------------------------------
(* Calls of the Harmonic Field matcher and of the two cosine similarities *)

\* Texts with and without a word longer than two characters, of equal and of
\* different lengths, with capitals, punctuation and repeated words
MatchTexts ==
    { TextEmpty, TextAB,
      <<"a", "b">>,                                  \* "ab"
      <<"x", "y">>,                                  \* "xy"
      <<"a", "b", "c">>,                             \* "abc"
      <<"x", "y", "z">>,                             \* "xyz"
      <<"A", "b", "c", "!">>,                        \* "Abc!"
      <<"a", "b", "c", " ", "d", "e", "f">>,         \* "abc def"
      <<"x", "y", "z", " ", "u", "v", "w">>,         \* "xyz uvw"
      <<"a", "b", "c", " ", "a", "b", "c", " ", "x", "y", "z">>,    \* "abc abc xyz"
      PatternTestSuite }

CallCalculatePatternMatchConfidence ==
    /\ call = NoCall
    /\ \E userRequest \in MatchTexts, pattern \in MatchTexts :
          call' = [fn |-> "calculatePatternMatchConfidence",
                   userRequest |-> userRequest, pattern |-> pattern,
                   result |-> calculatePatternMatchConfidence(userRequest, pattern)]
    /\ UNCHANGED agentVars

\* calculateCosineSimilarity of harmonic-field.ts on two token-frequency maps
CallFrequencyCosineSimilarity ==
    /\ call = NoCall
    /\ \E textA \in MatchTexts, textB \in MatchTexts :
          LET freqA == createFrequencyVector(tokenize(textA))
              freqB == createFrequencyVector(tokenize(textB))
          IN  call' = [fn |-> "frequencyCosineSimilarity", freqA |-> freqA, freqB |-> freqB,
                       result |-> FrequencyCosineSimilarity(freqA, freqB)]
    /\ UNCHANGED agentVars

\* calculateCosineSimilarity of resonance-engine.ts on two direction vectors
CallVectorCosineSimilarity ==
    /\ call = NoCall
    /\ \E a \in DirectionVectors, b \in DirectionVectors :
          call' = [fn |-> "vectorCosineSimilarity", a |-> a, b |-> b,
                   result |-> VectorCosineSimilarity(a, b)]
    /\ UNCHANGED agentVars

\* calculateKeywordOverlap on the token lists of two texts
CallCalculateKeywordOverlap ==
    /\ call = NoCall
    /\ \E textA \in MatchTexts, textB \in MatchTexts :
          LET tokensA == tokenize(textA)
              tokensB == tokenize(textB)
          IN  call' = [fn |-> "calculateKeywordOverlap",
                       tokensA |-> tokensA, tokensB |-> tokensB,
                       result |-> calculateKeywordOverlap(tokensA, tokensB)]
    /\ UNCHANGED agentVars

InitMatch == call = NoCall /\ constructed = NoAgent /\ AgentInit
NextMatch ==
    \/ CallCalculatePatternMatchConfidence
    \/ CallCalculateKeywordOverlap
    \/ CallFrequencyCosineSimilarity
    \/ CallVectorCosineSimilarity
SpecMatch == InitMatch /\ [][NextMatch]_vars

-----------------------------------------------------------------------------
(* Emotional intelligence (src/emotional-intelligence.ts) *)

INTENSITY_SCALE_FACTOR == 3
BASE_CONFIDENCE == 700
CONFIDENCE_INCREMENT == 100
MAX_CONFIDENCE == 1000

positiveKeywords ==
    { <<"g", "r", "e", "a", "t">>,
      <<"e", "x", "c", "e", "l", "l", "e", "n", "t">>,
      <<"g", "o", "o", "d">>,
      <<"h", "a", "p", "p", "y">>,
      <<"l", "o", "v", "e">>,
      <<"p", "e", "r", "f", "e", "c", "t">>,
      <<"a", "w", "e", "s", "o", "m", "e">>,
      <<"t", "h", "a", "n", "k", "s">> }

negativeKeywords ==
    { <<"b", "a", "d">>,
      <<"t", "e", "r", "r", "i", "b", "l", "e">>,
      <<"h", "a", "t", "e">>,
      <<"a", "w", "f", "u", "l">>,
      <<"e", "r", "r", "o", "r">>,
      <<"f", "a", "i", "l">>,
      <<"p", "r", "o", "b", "l", "e", "m">>,
      <<"i", "s", "s", "u", "e">> }

\* String.prototype.includes
Includes(text, keyword) ==
    \E i \in 1..(Len(text) - Len(keyword) + 1) :
        SubSeq(text, i, i + Len(keyword) - 1) = keyword

\* The EmotionalState analyzeEmotion derives from the input and pushes on its history
EmotionalStateOf(userInput) ==
    LET lowerInput == toLowerCase(userInput)
        positiveCount == Cardinality({k \in positiveKeywords : Includes(lowerInput, k)})
        negativeCount == Cardinality({k \in negativeKeywords : Includes(lowerInput, k)})
    IN  [sentiment |-> IF positiveCount > negativeCount THEN "positive"
                       ELSE IF negativeCount > positiveCount THEN "negative"
                       ELSE "neutral",
         confidence |-> Min(BASE_CONFIDENCE
                              + Abs(positiveCount - negativeCount) * CONFIDENCE_INCREMENT,
                            MAX_CONFIDENCE),
         intensity |-> IF positiveCount > negativeCount
                       THEN Min((positiveCount * ONE) \div INTENSITY_SCALE_FACTOR, ONE)
                       ELSE IF negativeCount > positiveCount
                       THEN Min((negativeCount * ONE) \div INTENSITY_SCALE_FACTOR, ONE)
                       ELSE 500]

\* The state depends on the text alone; computed once for each request text.
EmotionalStateTable == [userInput \in RequestTexts |-> EmotionalStateOf(userInput)]

analyzeEmotion(userInput) == EmotionalStateTable[userInput]

-----------------------------------------------------------------------------
(* aggregateFeedback (lib/prz/user-feedback.ts) *)

\* Mutant: a tie for the largest count between positive and another sentiment
\* decided for positive.
aggregateFeedbackTiesPositive(feedbackList) ==
    LET Count(sentiment) ==
            Cardinality({i \in 1..Len(feedbackList) : feedbackList[i].sentiment = sentiment})
        positiveCount == Count("positive")
        negativeCount == Count("negative")
        neutralCount == Count("neutral")
    IN  [totalFeedback |-> Len(feedbackList),
         positiveCount |-> positiveCount,
         negativeCount |-> negativeCount,
         neutralCount |-> neutralCount,
         averageConfidence |-> 0,
         averageIntensity |-> 0,
         dominantSentiment |->
             IF positiveCount >= negativeCount /\ positiveCount >= neutralCount
             THEN "positive"
             ELSE IF negativeCount > positiveCount /\ negativeCount > neutralCount
                  THEN "negative"
                  ELSE "neutral",
         resonanceAdjustment |-> 0]

\* Averages are rounded down to the thousandth.
aggregateFeedback(feedbackList) ==
    IF Len(feedbackList) = 0
    THEN [totalFeedback |-> 0, positiveCount |-> 0, negativeCount |-> 0,
          neutralCount |-> 0, averageConfidence |-> 0, averageIntensity |-> 0,
          dominantSentiment |-> "neutral", resonanceAdjustment |-> 0]
    ELSE LET Count(sentiment) ==
                 Cardinality({i \in 1..Len(feedbackList) :
                                 feedbackList[i].sentiment = sentiment})
             positiveCount == Count("positive")
             negativeCount == Count("negative")
             neutralCount == Count("neutral")
             averageConfidence ==
                 SumSeq([i \in 1..Len(feedbackList) |-> feedbackList[i].confidence])
                     \div Len(feedbackList)
             averageIntensity ==
                 SumSeq([i \in 1..Len(feedbackList) |-> feedbackList[i].intensity])
                     \div Len(feedbackList)
         IN  [averageConfidence |-> averageConfidence,
              dominantSentiment |->
                  IF positiveCount > negativeCount /\ positiveCount > neutralCount
                  THEN "positive"
                  ELSE IF negativeCount > positiveCount /\ negativeCount > neutralCount
                       THEN "negative"
                       ELSE "neutral"]
             @@ AggregationOf(positiveCount, negativeCount, neutralCount, averageIntensity)

-----------------------------------------------------------------------------
(* detectContradictoryFeedback (lib/prz/user-feedback.ts) *)

ContradictionPattern ==
    "Alternating positive/negative feedback detected. Consider stabilizing direction."

\* The number of positions whose sentiment is the opposite sign of the one before
Alternations(sentiments) ==
    Cardinality({i \in 2..Len(sentiments) :
                    \/ sentiments[i] = "positive" /\ sentiments[i - 1] = "negative"
                    \/ sentiments[i] = "negative" /\ sentiments[i - 1] = "positive"})

\* Mutant: the alternations counted over the whole history, not over the window.
detectContradictoryFeedbackUnfiltered(history, windowMs, t) ==
    IF Len(history) < 3
    THEN [hasContradiction |-> FALSE]
    ELSE LET sentiments == [i \in 1..Len(history) |-> history[i].sentiment]
         IN  IF Alternations(sentiments) >= 2
             THEN [hasContradiction |-> TRUE, pattern |-> ContradictionPattern]
             ELSE [hasContradiction |-> FALSE]

\* t is the value Date.now() returns inside the call
detectContradictoryFeedback(history, windowMs, t) ==
    IF Len(history) < 3
    THEN [hasContradiction |-> FALSE]
    ELSE LET Recent(f) == t - f.timestamp < windowMs
             recentFeedback == SelectSeq(history, Recent)
             sentiments == [i \in 1..Len(recentFeedback) |-> recentFeedback[i].sentiment]
         IN  IF Len(recentFeedback) < 3
             THEN [hasContradiction |-> FALSE]
             ELSE IF Alternations(sentiments) >= 2
                  THEN [hasContradiction |-> TRUE, pattern |-> ContradictionPattern]
                  ELSE [hasContradiction |-> FALSE]

-----------------------------------------------------------------------------
(* Calls of the functions over a feedback list *)

\* The instant of the call: one millisecond after a full default window
ContradictionNow == FEEDBACK_LOOP_WINDOW_MS + 1

FeedbackWindows == {FEEDBACK_LOOP_WINDOW_MS, LOOP_DETECTION_WINDOW_MS}

\* Entries of each sentiment exactly one default window old (timestamp 1) and just
\* inside it (timestamp 2, outside the shorter window), one stamped at the
\* instant of the call and one stamped after it
SentimentEntries ==
    { Feedback("h", IdA, sentiment, "accuracy", 900, 800, timestamp) :
        sentiment \in {"positive", "neutral", "negative"}, timestamp \in {1, 2} }
    \cup { Feedback("h", IdA, "positive", "accuracy", 700, 200, ContradictionNow),
           Feedback("h", IdA, "negative", "accuracy", 900, ONE, ContradictionNow + 1) }

CallDetectContradictoryFeedback ==
    /\ call = NoCall
    /\ \E history \in SeqsUpTo(SentimentEntries, MaxHist), windowMs \in FeedbackWindows :
          call' = [fn |-> "detectContradictoryFeedback", history |-> history,
                   windowMs |-> windowMs, now |-> ContradictionNow,
                   result |-> detectContradictoryFeedback(history, windowMs,
                                                          ContradictionNow)]
    /\ UNCHANGED agentVars

CallAggregateFeedback ==
    /\ call = NoCall
    /\ \E feedbackList \in SeqsUpTo(SentimentEntries, MaxHist) :
          call' = [fn |-> "aggregateFeedback", feedbackList |-> feedbackList,
                   result |-> aggregateFeedback(feedbackList)]
    /\ UNCHANGED agentVars

InitFeedbackList == call = NoCall /\ constructed = NoAgent /\ AgentInit
NextFeedbackList == CallDetectContradictoryFeedback \/ CallAggregateFeedback
SpecFeedbackList == InitFeedbackList /\ [][NextFeedbackList]_vars

-----------------------------------------------------------------------------
(* PrzAgent (lib/agent.ts) *)

\* Requests: a text, a second text of the same words, a text of another word
AgentRequests == {TextAB, TextBA, TextC}

\* options.feedback: absent, or negative feedback of full intensity on one
\* artifact, stamped with the time of the call
AgentFeedbacks(t) == {<<>>, <<Feedback("f", IdA, "negative", "accuracy", 900, ONE, t)>>}

TickDeltas == {LOOP_DETECTION_WINDOW_MS \div 2}

\* Date.now() moves on
Tick ==
    /\ \E d \in TickDeltas :
          /\ now + d <= MaxTicks * (LOOP_DETECTION_WINDOW_MS \div 2)
          /\ now' = now + d
    /\ UNCHANGED <<call, constructed, actionHistory, feedbackHistory, resonanceHistory,
                   eiHistory, runs, log, mktActionHistory, mktLog>>

\* Mutant: the action a run offers to the guard carries its payload as an object.
RunActionObjectPayload(userRequest, t) ==
    Action(<<"agent-", t>>, "user_request", ObjectPayload, t)

\* options.id ?? `agent-${Date.now()}`, type 'user_request'
RunAction(userRequest, t) ==
    Action(<<"agent-", t>>, "user_request", StringPayload(userRequest), t)

\* The last two entries compared: |delta| < 0.01 is flat
calculateResonanceTrend(history) ==
    IF Len(history) < 2 THEN "flat"
    ELSE LET delta == history[Len(history)] - history[Len(history) - 1]
         IN  IF Abs(delta) < 10 THEN "flat"
             ELSE IF delta > 0 THEN "up" ELSE "down"

AgentStateOf(effectiveResonance) ==
    IF effectiveResonance >= CRYSTAL_THRESHOLD THEN "crystal" ELSE "vapor"

\* Mutant: the action is recorded before the guard is asked.
RunRecordingRejected ==
    /\ constructed = "PrzAgent"
    /\ Len(log) < MaxCalls
    /\ Len(runs) < MaxInFlight
    /\ \E userRequest \in AgentRequests, feedback \in AgentFeedbacks(now) :
          LET action == RunAction(userRequest, now)
              guard == beforeAction(action, actionHistory)
              pushed == Append(actionHistory, action)
              entry == [op |-> "run", userRequest |-> userRequest,
                        feedback |-> feedback, at |-> now]
          IN  IF ~guard.shouldProceed
              THEN /\ log' = Append(log, [outcome |-> "threw",
                                          message |-> guard.reason] @@ entry)
                   /\ actionHistory' = pushed
                   /\ UNCHANGED <<eiHistory, runs>>
              ELSE /\ actionHistory' = HistoryAfterRunPrzPipeline(userRequest, pushed, now)
                   /\ eiHistory' = Append(eiHistory, analyzeEmotion(userRequest))
                   /\ runs' = Append(runs,
                          [stage |-> "feedback", entry |-> Len(log) + 1,
                           userRequest |-> userRequest, feedback |-> feedback,
                           emotionalState |-> analyzeEmotion(userRequest),
                           pipelineResult |-> runPrzPipeline(userRequest, pushed, now)])
                   /\ log' = Append(log, [outcome |-> "pending"] @@ entry)
    /\ UNCHANGED <<call, constructed, now, feedbackHistory, resonanceHistory,
                   mktActionHistory, mktLog>>

\* run(), from its first line to the first suspension: the guard, the push, the
\* emotion analysis and runPrzPipelineWithFeedback up to its await, which is all
\* of runPrzPipeline on the list that now holds the action.
Run ==
    /\ constructed = "PrzAgent"
    /\ Len(log) < MaxCalls
    /\ Len(runs) < MaxInFlight
    /\ \E userRequest \in AgentRequests, feedback \in AgentFeedbacks(now) :
          LET action == RunAction(userRequest, now)
              guard == beforeAction(action, actionHistory)
              pushed == Append(actionHistory, action)
              entry == [op |-> "run", userRequest |-> userRequest,
                        feedback |-> feedback, at |-> now]
          IN  IF ~guard.shouldProceed
              THEN /\ log' = Append(log, [outcome |-> "threw",
                                          message |-> guard.reason] @@ entry)
                   /\ UNCHANGED <<actionHistory, eiHistory, runs>>
              ELSE /\ actionHistory' = HistoryAfterRunPrzPipeline(userRequest, pushed, now)
                   /\ eiHistory' = Append(eiHistory, analyzeEmotion(userRequest))
                   /\ runs' = Append(runs,
                          [stage |-> "feedback", entry |-> Len(log) + 1,
                           userRequest |-> userRequest, feedback |-> feedback,
                           emotionalState |-> analyzeEmotion(userRequest),
                           pipelineResult |-> runPrzPipeline(userRequest, pushed, now)])
                   /\ log' = Append(log, [outcome |-> "pending"] @@ entry)
    /\ UNCHANGED <<call, constructed, now, feedbackHistory, resonanceHistory,
                   mktActionHistory, mktLog>>

\* runPrzPipelineWithFeedback resumed after its await, up to its return; it reads
\* the feedback list as it is now.  Continuations run in the order they were queued.
RunFeedbackStage ==
    /\ constructed = "PrzAgent"
    /\ runs # <<>>
    /\ Head(runs).stage = "feedback"
    /\ LET run == Head(runs)
           result == IF run.pipelineResult.threw
                     THEN run.pipelineResult
                     ELSE FeedbackStage(run.pipelineResult, run.feedback, feedbackHistory)
       IN  /\ runs' = Append(Tail(runs),
                          [stage |-> "record", entry |-> run.entry,
                           userRequest |-> run.userRequest, feedback |-> run.feedback,
                           emotionalState |-> run.emotionalState,
                           pipelineResult |-> result])
           /\ feedbackHistory' = FeedbackHistoryAfterFeedbackStage(
                                     run.pipelineResult, run.feedback, feedbackHistory)
    /\ UNCHANGED <<call, constructed, now, actionHistory,
                   resonanceHistory, eiHistory, log, mktActionHistory, mktLog>>

\* run() resumed after its await, up to its return
RunRecord ==
    /\ constructed = "PrzAgent"
    /\ runs # <<>>
    /\ Head(runs).stage = "record"
    /\ LET run == Head(runs)
           pipelineResult == run.pipelineResult
       IN  IF pipelineResult.threw
           THEN /\ log' = [log EXCEPT ![run.entry] =
                              [outcome |-> "threw", message |-> pipelineResult.message]
                              @@ log[run.entry]]
                /\ UNCHANGED <<resonanceHistory, feedbackHistory>>
           ELSE LET effectiveResonance ==
                        IF "adjustedResonance" \in DOMAIN pipelineResult
                        THEN pipelineResult.adjustedResonance
                        ELSE pipelineResult.resonance.score
                    recorded == Append(resonanceHistory, effectiveResonance)
                    kept == IF run.feedback # <<>> /\ pipelineResult.feedbackAccepted
                            THEN Append(feedbackHistory, run.feedback[1])
                            ELSE feedbackHistory
                IN  /\ resonanceHistory' = recorded
                    /\ feedbackHistory' = kept
                    /\ log' = [log EXCEPT ![run.entry] =
                                  [outcome |-> "resolved",
                                   result |-> [emotionalState |-> run.emotionalState,
                                               state |-> AgentStateOf(effectiveResonance),
                                               resonanceTrend |->
                                                   calculateResonanceTrend(recorded),
                                               feedbackSummary |-> aggregateFeedback(kept)]
                                              @@ pipelineResult]
                                  @@ log[run.entry]]
    /\ runs' = Tail(runs)
    /\ UNCHANGED <<call, constructed, now, actionHistory, eiHistory,
                   mktActionHistory, mktLog>>

\* reset(): the three lists are emptied; the emotional history is not
\* getStatus(): what it returns in the current state
getStatus ==
    LET lastResonance == IF resonanceHistory = <<>> THEN 0
                         ELSE resonanceHistory[Len(resonanceHistory)]
    IN  [feedback |-> aggregateFeedback(feedbackHistory),
         resonanceHistory |-> resonanceHistory,
         lastState |-> IF lastResonance >= CRYSTAL_THRESHOLD THEN "crystal" ELSE "vapor"]

\* Mutant: reset() leaves the action list as it is.
ResetFeedbackAndResonance ==
    /\ constructed = "PrzAgent"
    /\ Len(log) < MaxCalls
    /\ Cardinality({i \in 1..Len(log) : log[i].op = "reset"}) < MaxResets
    /\ feedbackHistory' = <<>>
    /\ resonanceHistory' = <<>>
    /\ log' = Append(log, [op |-> "reset", at |-> now])
    /\ UNCHANGED <<call, constructed, now, actionHistory, eiHistory, runs,
                   mktActionHistory, mktLog>>

Reset ==
    /\ constructed = "PrzAgent"
    /\ Len(log) < MaxCalls
    /\ Cardinality({i \in 1..Len(log) : log[i].op = "reset"}) < MaxResets
    /\ actionHistory' = <<>>
    /\ feedbackHistory' = <<>>
    /\ resonanceHistory' = <<>>
    /\ log' = Append(log, [op |-> "reset", at |-> now])
    /\ UNCHANGED <<call, constructed, now, eiHistory, runs, mktActionHistory, mktLog>>

-----------------------------------------------------------------------------
(* MarketingAgent (examples/marketing-agent.ts) *)

DefaultQuery ==
    <<"d", "e", "v", "e", "l", "o", "p", "e", "r", "s", " ", "i", "n", "t", "e", "r",
      "e", "s", "t", "e", "d", " ", "i", "n", " ", "A", "I", " ", "a", "g", "e", "n",
      "t", "i", "c", " ", "o", "p", "e", "r", "a", "t", "i", "o", "n", "s", ",", " ",
      "f", "l", "o", "w", ",", " ", "a", "n", "d", " ", "h", "i", "g", "h", "-", "r",
      "e", "s", "o", "n", "a", "n", "c", "e", " ", "s", "y", "s", "t", "e", "m", "s">>

\* The optional query: absent, the empty string, or a text
MarketingQueries == {<<>>, <<TextEmpty>>, <<TextAB>>, <<TextBA>>}

\* query || default
SearchQuery(query) ==
    IF query = <<>> \/ query[1] = <<>> THEN DefaultQuery ELSE query[1]

\* findResonantDevelopers up to the push of the admitted action.  What follows
\* (the resonance measurement, the developer list, the campaign) reads and
\* writes no field of the agent.
FindResonantDevelopers ==
    /\ constructed = "MarketingAgent"
    /\ Len(mktLog) < MaxMktCalls
    /\ \E query \in MarketingQueries :
          LET searchQuery == SearchQuery(query)
              action == Action(<<"marketing-", now>>, "developer_search",
                               StringPayload(searchQuery), now)
              guard == beforeAction(action, mktActionHistory)
              entry == [op |-> "findResonantDevelopers", query |-> query,
                        searchQuery |-> searchQuery, at |-> now]
          IN  IF ~guard.shouldProceed
              THEN /\ mktLog' = Append(mktLog,
                          [outcome |-> "threw",
                           message |-> <<"GOOSEGUARD: ", guard.reason>>] @@ entry)
                   /\ UNCHANGED mktActionHistory
              ELSE /\ mktActionHistory' = Append(mktActionHistory, action)
                   /\ mktLog' = Append(mktLog, [outcome |-> "resolved"] @@ entry)
    /\ UNCHANGED <<call, constructed, now, actionHistory, feedbackHistory,
                   resonanceHistory, eiHistory, runs, log>>

\* clearHistory()
ClearHistory ==
    /\ constructed = "MarketingAgent"
    /\ Len(mktLog) < MaxMktCalls
    /\ Cardinality({i \in 1..Len(mktLog) : mktLog[i].op = "clearHistory"}) < MaxResets
    /\ mktActionHistory' = <<>>
    /\ mktLog' = Append(mktLog, [op |-> "clearHistory", at |-> now])
    /\ UNCHANGED <<call, constructed, now, actionHistory, feedbackHistory,
                   resonanceHistory, eiHistory, runs, log>>

-----------------------------------------------------------------------------
(* A core function called twice on the same arguments *)

\* Feedback stamped at time 0, so that the clock of the model moves across the
\* end of its window
EarlyEntries ==
    { Feedback("h", IdA, sentiment, "accuracy", 900, 800, 0) :
        sentiment \in {"positive", "neutral", "negative"} }

\* The calls that are repeated: a function and its explicit arguments
CoreCalls ==
    { [fn |-> "beforeAction", action |-> action, history |-> history] :
        action \in GuardCandidates, history \in SeqsUpTo(GuardEntries, MaxRepeatHist) }
    \cup { [fn |-> "calculatePatternMatchConfidence", userRequest |-> a, pattern |-> b] :
             a \in MatchTexts, b \in MatchTexts }
    \cup { [fn |-> "measureResonance",
            input |-> [content |-> TextAB, direction |-> d, magnitude |-> m,
                       frequency |-> 500],
            context |-> [state |-> "active", patterns |-> <<m>>,
                         expectedDirection |-> e, systemFrequency |-> 500]] :
             d \in DirectionVectors, e \in DirectionVectors, m \in {0, 900} }
    \cup { [fn |-> "processFeedback", feedback |-> f, history |-> history] :
             f \in FeedbackCandidates, history \in SeqsUpTo(FeedbackEntries, MaxRepeatHist) }
    \cup { [fn |-> "aggregateFeedback", feedbackList |-> list] :
             list \in SeqsUpTo(SentimentEntries, MaxRepeatHist) }
    \cup { [fn |-> "adjustResonanceWithFeedback", originalResonance |-> r, feedback |-> f] :
             r \in Resonances, f \in AdjustFeedbacks }
    \cup { [fn |-> "shouldTransitionState", feedback |-> f, currentResonance |-> r] :
             r \in Resonances, f \in AdjustFeedbacks }
    \cup { [fn |-> "detectContradictoryFeedback", history |-> history, windowMs |-> w] :
             history \in SeqsUpTo(EarlyEntries, MaxHist), w \in FeedbackWindows }

\* What the function returns on these arguments when Date.now() is t
Apply(c, t) ==
    CASE c.fn = "beforeAction" -> beforeAction(c.action, c.history)
      [] c.fn = "calculatePatternMatchConfidence" ->
            calculatePatternMatchConfidence(c.userRequest, c.pattern)
      [] c.fn = "measureResonance" -> measureResonance(c.input, c.context)
      [] c.fn = "processFeedback" -> processFeedback(c.feedback, c.history)
      [] c.fn = "aggregateFeedback" -> aggregateFeedback(c.feedbackList)
      [] c.fn = "adjustResonanceWithFeedback" ->
            adjustResonanceWithFeedback(c.originalResonance, c.feedback)
      [] c.fn = "shouldTransitionState" ->
            shouldTransitionState(c.feedback, c.currentResonance)
      [] c.fn = "detectContradictoryFeedback" ->
            detectContradictoryFeedback(c.history, c.windowMs, t)

CallCore ==
    /\ call = NoCall
    /\ \E c \in CoreCalls :
          call' = [at |-> now, result |-> Apply(c, now)] @@ c
    /\ UNCHANGED agentVars

\* The same function on the same arguments, called once more
CallCoreAgain ==
    /\ call # NoCall
    /\ "again" \notin DOMAIN call
    /\ call' = [againAt |-> now, again |-> Apply(call, now)] @@ call
    /\ UNCHANGED agentVars

InitRepeat == call = NoCall /\ constructed = NoAgent /\ AgentInit
NextRepeat == CallCore \/ Tick \/ CallCoreAgain
SpecRepeat == InitRepeat /\ [][NextRepeat]_vars

-----------------------------------------------------------------------------
(* The agents *)

\* A behaviour constructs one agent and calls it; the two classes share no state.
Init ==
    /\ call = NoCall
    /\ constructed \in {"PrzAgent", "MarketingAgent"}
    /\ AgentInit

Next ==
    \/ Tick
    \/ Run
    \/ RunFeedbackStage
    \/ RunRecord
    \/ Reset
    \/ FindResonantDevelopers
    \/ ClearHistory

Spec == Init /\ [][Next]_vars

\* A PrzAgent that has resolved three run() calls of one request at one reading
\* of the clock, the first of them with feedback that was accepted; the log
\* records the calls made from here on.
LoadedFeedback == Feedback("f", IdA, "negative", "accuracy", 900, ONE, 0)

InitLoaded ==
    /\ call = NoCall
    /\ constructed = "PrzAgent"
    /\ now = 0
    /\ actionHistory = <<RunAction(TextAB, 0), RunAction(TextAB, 0), RunAction(TextAB, 0)>>
    /\ feedbackHistory = <<LoadedFeedback>>
    /\ resonanceHistory = <<adjustResonanceWithFeedback(ONE, LoadedFeedback), ONE, ONE>>
    /\ eiHistory = <<analyzeEmotion(TextAB), analyzeEmotion(TextAB), analyzeEmotion(TextAB)>>
    /\ runs = <<>>
    /\ log = <<>>
    /\ mktActionHistory = <<>>
    /\ mktLog = <<>>

NextLoaded ==
    \/ Tick
    \/ Run
    \/ RunFeedbackStage
    \/ RunRecord
    \/ Reset

SpecLoaded == InitLoaded /\ [][NextLoaded]_vars

\* A behaviour that either calls a pipeline function directly on supplied lists
\* or constructs a PrzAgent and calls it: every result the pipeline and the
\* agent can hand out.
InitResults ==
    /\ call = NoCall
    /\ constructed \in {NoAgent, "PrzAgent"}
    /\ AgentInit

NextResults ==
    \/ constructed = NoAgent /\ CallRunPrzPipeline
    \/ constructed = NoAgent /\ CallRunPrzPipelineWithFeedback
    \/ constructed = "PrzAgent" /\ Tick
    \/ Run
    \/ RunFeedbackStage
    \/ RunRecord
    \/ Reset

SpecResults == InitResults /\ [][NextResults]_vars

-----------------------------------------------------------------------------
(* Claims about the Loop Guard *)

\* The lower-cased whitespace tokens of a text, stated without the splitting
\* loop: the maximal whitespace-free pieces, and the empty piece when the text
\* is empty or begins or ends with whitespace.
TokenSet(s) ==
    LET l == [i \in 1..Len(s) |-> LowerChar(s[i])]
        n == Len(l)
        starts == {i \in 1..n : ~IsWhitespace(l[i]) /\ (i = 1 \/ IsWhitespace(l[i - 1]))}
        ends == {j \in 1..n : ~IsWhitespace(l[j]) /\ (j = n \/ IsWhitespace(l[j + 1]))}
        EndOf(i) == CHOOSE j \in ends : j >= i /\ \A k \in ends : k >= i => k >= j
    IN  {SubSeq(l, i, EndOf(i)) : i \in starts}
          \cup (IF n = 0 \/ IsWhitespace(l[1]) \/ IsWhitespace(l[n])
                THEN {<<>>} ELSE {})

\* Jaccard similarity of the two token sets > 0.85
TokenJaccardAbove85(a, b) ==
    LET tokensA == TokenSet(a)
        tokensB == TokenSet(b)
    IN  100 * Cardinality(tokensA \cap tokensB) > 85 * Cardinality(tokensA \cup tokensB)

\* An entry the claims count toward the limit of 3
CountsTowardLoop(candidate, h) ==
    /\ candidate.timestamp - h.timestamp < 300000
    /\ h.type = candidate.type
    /\ h.payload.typeof = "string"
    /\ candidate.payload.typeof = "string"
    /\ TokenJaccardAbove85(h.payload.text, candidate.payload.text)

NumCounted(candidate, history) ==
    Cardinality({i \in 1..Len(history) : CountsTowardLoop(candidate, history[i])})

\* C1: beforeAction(candidate, history) returns shouldProceed=false exactly when
\* at least 3 history entries lie less than 300000 ms before the candidate (or
\* after it), have the candidate's type, have a string payload as the candidate
\* has, and have token-set Jaccard similarity > 0.85 with it; otherwise it
\* returns shouldProceed=true.
C1_LoopGuardExact ==
    call.fn = "beforeAction" =>
        call.result.shouldProceed = (NumCounted(call.action, call.history) < 3)

\* C1 witness: a rejected candidate whose history also holds an entry exactly
\* 5 minutes older (not counted) and a counted entry stamped after the candidate.
C1_Witness ==
    /\ call.fn = "beforeAction"
    /\ ~call.result.shouldProceed
    /\ NumCounted(call.action, call.history) = 3
    /\ \E i \in 1..Len(call.history) :
          /\ call.action.timestamp - call.history[i].timestamp = 300000
          /\ call.history[i].type = call.action.type
          /\ call.history[i].payload = call.action.payload
    /\ \E i \in 1..Len(call.history) :
          /\ call.history[i].timestamp > call.action.timestamp
          /\ CountsTowardLoop(call.action, call.history[i])

-----------------------------------------------------------------------------
(* Claims about the Feedback Engine *)

NoWhitespace(s) == \A i \in 1..Len(s) : ~IsWhitespace(s[i])

\* History entries with the feedback's artifactId, sentiment and type, stamped
\* less than 5 minutes before it (or after it)
SameFeedbackInWindow(f, history) ==
    {i \in 1..Len(history) :
        /\ history[i].artifactId = f.artifactId
        /\ history[i].sentiment = f.sentiment
        /\ history[i].type = f.type
        /\ f.timestamp - history[i].timestamp < 300000}

\* The same, the artifactId compared case-insensitively
SameFeedbackIgnoringCase(f, history) ==
    {i \in 1..Len(history) :
        /\ [k \in 1..Len(history[i].artifactId) |-> LowerChar(history[i].artifactId[k])]
             = [k \in 1..Len(f.artifactId) |-> LowerChar(f.artifactId[k])]
        /\ history[i].sentiment = f.sentiment
        /\ history[i].type = f.type
        /\ f.timestamp - history[i].timestamp < 300000}

RejectedAsRedundant(result) ==
    result = [accepted |-> FALSE,
              reason |-> <<"GOOSEGUARD: Redundant feedback pattern detected">>,
              suggestedAction |->
                  "Consider reformulating your request or exploring a different approach."]

\* C5: processFeedback returns accepted=false with the redundant-feedback reason
\* and the guard's pivot as suggestedAction whenever at least 3 history entries
\* have the feedback's artifactId, sentiment and type and lie inside the 5 minute
\* window; and when the feedback's artifactId has no whitespace, that rejection
\* is given only if at least 3 in-window entries agree with it in artifactId
\* (case-insensitively), sentiment and type.
C5_RedundantFeedbackRejected ==
    call.fn = "processFeedback" =>
        /\ Cardinality(SameFeedbackInWindow(call.feedback, call.history)) >= 3
              => RejectedAsRedundant(call.result)
        /\ (NoWhitespace(call.feedback.artifactId) /\ RejectedAsRedundant(call.result))
              => Cardinality(SameFeedbackIgnoringCase(call.feedback, call.history)) >= 3

\* C5 witness: a whitespace-free artifactId rejected as redundant, with exactly
\* three counted entries, one of them differing in letter case only, beside an
\* entry that differs in sentiment.
C5_Witness ==
    /\ call.fn = "processFeedback"
    /\ NoWhitespace(call.feedback.artifactId)
    /\ RejectedAsRedundant(call.result)
    /\ Len(call.history) = 4
    /\ Cardinality(SameFeedbackIgnoringCase(call.feedback, call.history)) = 3
    /\ Cardinality(SameFeedbackInWindow(call.feedback, call.history)) = 2
    /\ \E i \in 1..Len(call.history) : call.history[i].sentiment # call.feedback.sentiment

IsLowConfidenceReason(result) ==
    /\ "reason" \in DOMAIN result
    /\ Len(result.reason) = 4
    /\ result.reason[3] = " below minimum threshold "

\* What the Loop Guard answers for the feedback itself
GuardRejectsFeedback(f, history) ==
    NumCounted(FeedbackAction(f), [i \in 1..Len(history) |-> FeedbackAction(history[i])]) >= 3

\* C6 as stated: every feedback with confidence < 0.7 is rejected with the
\* 'below minimum threshold' reason whatever the Loop Guard answers, and
\* confidence exactly 0.7 is not rejected on this ground.
C6_Original ==
    call.fn = "processFeedback" =>
        /\ call.feedback.confidence < 700
              => (~call.result.accepted /\ IsLowConfidenceReason(call.result))
        /\ call.feedback.confidence = 700 => ~IsLowConfidenceReason(call.result)

\* C6 amended: every feedback with confidence < 0.7 is rejected (accepted=false,
\* nothing thrown); the reason is the 'below minimum threshold' one when the Loop
\* Guard lets the feedback proceed and the redundant-feedback one when the guard
\* rejects it; confidence of 0.7 or more is never rejected on this ground.
C6_LowConfidenceRejected ==
    call.fn = "processFeedback" =>
        /\ call.feedback.confidence < 700 =>
              /\ ~call.result.accepted
              /\ IF GuardRejectsFeedback(call.feedback, call.history)
                 THEN RejectedAsRedundant(call.result)
                 ELSE IsLowConfidenceReason(call.result)
        /\ call.feedback.confidence >= 700 => ~IsLowConfidenceReason(call.result)

\* C6 witness: low-confidence feedback that the guard also rejects
C6_Witness ==
    /\ call.fn = "processFeedback"
    /\ call.feedback.confidence < 700
    /\ GuardRejectsFeedback(call.feedback, call.history)
    /\ ~call.result.accepted

IsAggregation(f) == "resonanceAdjustment" \in DOMAIN f

\* The adjustment the claims give: +0.05*intensity, -0.10*intensity, 0, or the
\* aggregate's resonanceAdjustment
ClaimedAdjustment(f) ==
    IF IsAggregation(f) THEN f.resonanceAdjustment
    ELSE CASE f.sentiment = "positive" -> (5 * f.intensity) \div 100
           [] f.sentiment = "negative" -> 0 - ((10 * f.intensity) \div 100)
           [] f.sentiment = "neutral" -> 0

Clamp01(x) == IF x < 0 THEN 0 ELSE IF x > 1000 THEN 1000 ELSE x

\* C9: adjustResonanceWithFeedback(r, f) = clamp(r + a, 0, 1) with a as above, so
\* the result lies in [0,1]; and a is the adjustedResonance processFeedback
\* reports when it accepts f.
C9_AdjustIsClampedSum ==
    call.fn = "adjustResonanceWithFeedback" =>
        /\ call.result = Clamp01(call.originalResonance + ClaimedAdjustment(call.feedback))
        /\ call.result >= 0
        /\ call.result <= 1000
        /\ (~IsAggregation(call.feedback) /\ processFeedback(call.feedback, <<>>).accepted)
              => processFeedback(call.feedback, <<>>).adjustedResonance
                   = ClaimedAdjustment(call.feedback)

\* C9 witness: 0.97 with positive feedback of intensity 1.0 is clamped to 1.0
C9_Witness ==
    /\ call.fn = "adjustResonanceWithFeedback"
    /\ call.originalResonance = 970
    /\ ~IsAggregation(call.feedback)
    /\ call.feedback.sentiment = "positive"
    /\ call.feedback.intensity = 1000
    /\ processFeedback(call.feedback, <<>>).accepted
    /\ call.result = 1000

\* C10: shouldTransitionState(f, r) reports shouldTransition=true exactly when
\* (r >= 0.95) differs from (adjustResonanceWithFeedback(r, f) >= 0.95), and
\* newState is 'crystal' iff the adjusted resonance is >= 0.95, 'vapor' otherwise.
C10_TransitionIffThresholdCrossed ==
    call.fn = "shouldTransitionState" =>
        LET adjusted == adjustResonanceWithFeedback(call.currentResonance, call.feedback)
        IN  /\ call.result.shouldTransition
                  = ((call.currentResonance >= 950) # (adjusted >= 950))
            /\ call.result.newState = (IF adjusted >= 950 THEN "crystal" ELSE "vapor")

\* C10 witness: a crystal-to-vapor transition that lands from exactly 0.95
C10_Witness ==
    /\ call.fn = "shouldTransitionState"
    /\ call.currentResonance = 950
    /\ call.result.shouldTransition
    /\ call.result.newState = "vapor"

-----------------------------------------------------------------------------
(* Claims about the pipeline runner *)

IsPipelineCall == call.fn \in {"runPrzPipeline", "runPrzPipelineWithFeedback"}

\* The guard's verdict on the request against the supplied history
PipelineGuardVerdict ==
    beforeAction(Action("current", "request", StringPayload(call.userRequest), call.now),
                 call.history)

\* C3: whenever beforeAction rejects the request against the supplied history,
\* runPrzPipeline throws an Error whose message is the guard's reason and
\* returns no PipelineResult; runPrzPipelineWithFeedback propagates the same
\* throw, and nothing of the supplied feedback shows in the outcome.
C3_RejectedRequestThrows ==
    (IsPipelineCall /\ ~PipelineGuardVerdict.shouldProceed) =>
        /\ call.result.threw
        /\ call.result.message = PipelineGuardVerdict.reason
        /\ DOMAIN call.result = {"threw", "message"}

C3_Witness ==
    /\ call.fn = "runPrzPipelineWithFeedback"
    /\ call.feedback # <<>>
    /\ processFeedback(call.feedback[1], call.priorFeedback).accepted
    /\ ~PipelineGuardVerdict.shouldProceed
    /\ call.result.threw
    /\ call.result.message = "GOOSEGUARD: Redundant loop detected. Breaking to preserve flow."

\* C4: for every request text and every history that passes the loop guard,
\* runPrzPipeline returns directionSim = 1, magnitudeMatch = 1,
\* frequencyMatch = 1, score = 1.0, crystallized = true and tier GREEN LANE,
\* whatever the request and whichever pattern matched best.
C4_SyntheticResonanceIsPerfect ==
    (call.fn = "runPrzPipeline" /\ PipelineGuardVerdict.shouldProceed) =>
        /\ ~call.result.threw
        /\ call.result.resonance.directionSim = ONE
        /\ call.result.resonance.magnitudeMatch = ONE
        /\ call.result.resonance.frequencyMatch = ONE
        /\ call.result.resonance.score = ONE
        /\ call.result.crystallized = TRUE
        /\ call.result.tier = "GREEN LANE"

\* A run that applied a registry pattern, after a history that holds three
\* actions which do not all count
C4_Witness ==
    /\ call.fn = "runPrzPipeline"
    /\ Len(call.history) >= 3
    /\ PipelineGuardVerdict.shouldProceed
    /\ Len(call.result.deliverable) = 6
    /\ call.result.resonance.score = ONE
    /\ call.result.tier = "GREEN LANE"

\* What runPrzPipeline gives for the same request, history and instant
PlainResult == runPrzPipeline(call.userRequest, call.history, call.now)

FeedbackVerdict == processFeedback(call.feedback[1], call.priorFeedback)

FeedbackNotAccepted == call.feedback = <<>> \/ ~FeedbackVerdict.accepted

\* C7: when the request passes the guard and feedback is absent or rejected by
\* processFeedback, runPrzPipelineWithFeedback returns (does not throw)
\* feedbackAccepted = false with no adjustedResonance and no stateTransition,
\* and resonance, crystallized and tier exactly as runPrzPipeline gives them;
\* feedbackAccepted is true only if feedback was supplied and accepted.
C7_RejectedFeedbackIsData ==
    (call.fn = "runPrzPipelineWithFeedback" /\ PipelineGuardVerdict.shouldProceed) =>
        /\ ~call.result.threw
        /\ FeedbackNotAccepted =>
              /\ call.result.feedbackAccepted = FALSE
              /\ "adjustedResonance" \notin DOMAIN call.result
              /\ "stateTransition" \notin DOMAIN call.result
              /\ call.result.resonance = PlainResult.resonance
              /\ call.result.crystallized = PlainResult.crystallized
              /\ call.result.tier = PlainResult.tier
        /\ call.result.feedbackAccepted = TRUE => ~FeedbackNotAccepted

\* Negative feedback of full intensity, rejected as the fourth of its kind
C7_Witness ==
    /\ call.fn = "runPrzPipelineWithFeedback"
    /\ PipelineGuardVerdict.shouldProceed
    /\ call.feedback # <<>>
    /\ call.feedback[1].sentiment = "negative"
    /\ call.feedback[1].intensity = ONE
    /\ ~FeedbackVerdict.accepted
    /\ call.result.feedbackAccepted = FALSE
    /\ call.result.tier = "GREEN LANE"

ClaimedTier(score) == IF score >= 950 THEN "GREEN LANE" ELSE "MONITORED"

\* C8: given feedback that processFeedback accepts, the result has
\* feedbackAccepted = true, adjustedResonance =
\* adjustResonanceWithFeedback(resonance.score, feedback), tier and
\* crystallized re-derived from adjustedResonance (>= 0.95), and
\* stateTransition.occurred true exactly when the tier of the adjusted score
\* differs from the tier of the unadjusted score.
C8_AcceptedFeedbackAdjusts ==
    (/\ call.fn = "runPrzPipelineWithFeedback"
     /\ PipelineGuardVerdict.shouldProceed
     /\ ~FeedbackNotAccepted) =>
        LET adjusted == adjustResonanceWithFeedback(call.result.resonance.score,
                                                    call.feedback[1])
        IN  /\ ~call.result.threw
            /\ call.result.feedbackAccepted = TRUE
            /\ call.result.resonance = PlainResult.resonance
            /\ call.result.adjustedResonance = adjusted
            /\ call.result.tier = ClaimedTier(adjusted)
            /\ call.result.crystallized = (adjusted >= 950)
            /\ call.result.stateTransition.occurred =
                  (ClaimedTier(adjusted) # ClaimedTier(call.result.resonance.score))

\* Accepted negative feedback that takes the run from GREEN LANE to MONITORED
C8_Witness ==
    /\ call.fn = "runPrzPipelineWithFeedback"
    /\ PipelineGuardVerdict.shouldProceed
    /\ ~FeedbackNotAccepted
    /\ call.result.adjustedResonance = 900
    /\ call.result.tier = "MONITORED"
    /\ call.result.stateTransition.occurred

-----------------------------------------------------------------------------
(* Claims about the agents *)

LoopRejectionText == "GOOSEGUARD: Redundant loop detected. Breaking to preserve flow."

\* Positions i1 < i2 < i3 < i4 of a call log hold four calls of operation op with
\* one and the same text, made less than 5 minutes apart, with no clearing call
\* (reset, clearHistory) between them; and since the last clearing call before
\* them (or since construction) no other call carried a text of similar words.
FourIdenticalCalls(lg, op, clearOp, Text(_), i1, i2, i3, i4) ==
    LET four == {i1, i2, i3, i4}
        Cleared(a, b) == \E k \in (a + 1)..(b - 1) : lg[k].op = clearOp
    IN  /\ i1 < i2 /\ i2 < i3 /\ i3 < i4
        /\ \A i \in four : lg[i].op = op /\ Text(lg[i]) = Text(lg[i1])
        /\ ~Cleared(i1, i4)
        /\ lg[i4].at - lg[i1].at < 300000
        /\ \A j \in 1..(i4 - 1) :
              (j \notin four /\ lg[j].op = op /\ ~Cleared(j, i4))
                  => ~TokenJaccardAbove85(Text(lg[j]), Text(lg[i1]))

RunText(entry) == entry.userRequest

QueryText(entry) == entry.searchQuery

\* C2: on one PrzAgent, of four run() calls with identical request text made
\* within 5 minutes with no reset() between them (and no other request of
\* similar words on record), the first three are admitted and complete, and
\* the fourth throws the loop rejection.  The same holds for four
\* findResonantDevelopers calls with one query on one MarketingAgent, whose
\* message carries the GOOSEGUARD prefix before the guard's reason.
C2_FourthIdenticalCallThrows ==
    /\ \A i1, i2, i3, i4 \in 1..Len(log) :
          FourIdenticalCalls(log, "run", "reset", RunText, i1, i2, i3, i4) =>
              /\ \A i \in {i1, i2, i3} :
                    /\ log[i].outcome \in {"pending", "resolved"}
                    /\ log[i].outcome = "pending" => \E k \in 1..Len(runs) : runs[k].entry = i
                    /\ log[i].outcome = "resolved" => ~log[i].result.threw
              /\ log[i4].outcome = "threw"
              /\ log[i4].message = LoopRejectionText
    /\ \A i1, i2, i3, i4 \in 1..Len(mktLog) :
          FourIdenticalCalls(mktLog, "findResonantDevelopers", "clearHistory", QueryText,
                             i1, i2, i3, i4) =>
              /\ \A i \in {i1, i2, i3} : mktLog[i].outcome = "resolved"
              /\ mktLog[i4].outcome = "threw"
              /\ mktLog[i4].message = <<"GOOSEGUARD: ", LoopRejectionText>>

\* Four identical requests over two and a half minutes, three completed, the fourth thrown
C2_Witness ==
    /\ constructed = "PrzAgent"
    /\ runs = <<>>
    /\ \E i1, i2, i3, i4 \in 1..Len(log) :
          /\ FourIdenticalCalls(log, "run", "reset", RunText, i1, i2, i3, i4)
          /\ log[i4].at - log[i1].at > 0
          /\ \A i \in {i1, i2, i3} : log[i].outcome = "resolved"
          /\ log[i4].outcome = "threw"
          /\ Len(actionHistory) = 3

\* Four searches with the default query: three answered, the fourth thrown
C2_MarketingWitness ==
    /\ constructed = "MarketingAgent"
    /\ \E i1, i2, i3, i4 \in 1..Len(mktLog) :
          /\ FourIdenticalCalls(mktLog, "findResonantDevelopers", "clearHistory",
                                QueryText, i1, i2, i3, i4)
          /\ mktLog[i1].query = <<>>
          /\ mktLog[i4].outcome = "threw"
          /\ Len(mktActionHistory) = 3

-----------------------------------------------------------------------------
(* Claims about results *)

\* adjustedResonance when feedback was accepted, otherwise resonance.score
EffectiveResonance(r) ==
    IF "feedbackAccepted" \in DOMAIN r /\ r.feedbackAccepted
    THEN r.adjustedResonance
    ELSE r.resonance.score

CrystalCondition(r) == EffectiveResonance(r) >= 950

ResultClassifiedByThreshold(r) ==
    /\ r.crystallized = CrystalCondition(r)
    /\ (r.tier = "GREEN LANE") = CrystalCondition(r)
    /\ r.tier \in {"GREEN LANE", "MONITORED"}
    /\ "stateTransition" \in DOMAIN r =>
          /\ (r.stateTransition.newState = "crystal") = CrystalCondition(r)
          /\ r.stateTransition.newState \in {"crystal", "vapor"}
    /\ "state" \in DOMAIN r =>
          /\ (r.state = "crystal") = CrystalCondition(r)
          /\ r.state \in {"crystal", "vapor"}

\* C11: in every result of runPrzPipeline, runPrzPipelineWithFeedback and
\* PrzAgent.run, crystallized is true iff tier is GREEN LANE iff the effective
\* resonance is >= 0.95 (0.95 itself included); the agent's state is crystal
\* under the same condition, and so is the newState of a stateTransition.
C11_ClassificationFollowsThreshold ==
    /\ (IsPipelineCall /\ ~call.result.threw) => ResultClassifiedByThreshold(call.result)
    /\ \A i \in 1..Len(log) :
          (log[i].op = "run" /\ log[i].outcome = "resolved") =>
              /\ "state" \in DOMAIN log[i].result
              /\ ResultClassifiedByThreshold(log[i].result)

\* Accepted negative feedback that brings the score to 0.95 exactly
C11_Witness ==
    /\ call.fn = "runPrzPipelineWithFeedback"
    /\ ~call.result.threw
    /\ call.result.feedbackAccepted
    /\ call.result.adjustedResonance = 950
    /\ call.result.crystallized
    /\ call.result.tier = "GREEN LANE"
    /\ call.result.stateTransition.newState = "crystal"

\* An agent run whose accepted feedback left it in the vapor state
C11_AgentWitness ==
    \E i \in 1..Len(log) :
        /\ log[i].op = "run"
        /\ log[i].outcome = "resolved"
        /\ log[i].result.feedbackAccepted
        /\ log[i].result.state = "vapor"
        /\ log[i].result.tier = "MONITORED"
        /\ log[i].result.stateTransition.newState = "vapor"

-----------------------------------------------------------------------------
(* Claims about the Resonance Engine *)

\* C12: measureResonance returns a score between 0 and 1 for every input whose
\* magnitude and frequency, and every context whose patterns[0] and
\* systemFrequency, lie in [0,1], whatever the two direction vectors are.
C12_ScoreWithinUnitInterval ==
    call.fn = "measureResonance" =>
        (call.result.score >= 0 /\ call.result.score <= 1000)

\* C13: magnitudeMatch is 1 - |input.magnitude - b|, where b is patterns[0]
\* whenever patterns has a first element (0 included) and 0.5 only when it has
\* none.
C13_BaselineIsFirstPattern ==
    call.fn = "measureResonance" =>
        LET patterns == call.context.patterns
            b == IF Len(patterns) >= 1 THEN patterns[1] ELSE 500
            distance == IF call.input.magnitude >= b
                        THEN call.input.magnitude - b
                        ELSE b - call.input.magnitude
        IN  call.result.magnitudeMatch = 1000 - distance

-----------------------------------------------------------------------------
(* Claims about the Harmonic Field matcher *)

IsMatchCall == call.fn = "calculatePatternMatchConfidence"

\* A score that is a number (not NaN)
IsNumber(x) == x # NaN

\* C14: for every string A, calculatePatternMatchConfidence(A, A) >= 0.9.
C14_IdenticalTextScoresHigh ==
    (IsMatchCall /\ call.userRequest = call.pattern) =>
        (IsNumber(call.result) /\ call.result >= 900)

\* The lower-cased words of length > 2 of a text, punctuation taken as spacing
WordSet(text) ==
    LET spaced == [i \in 1..Len(text) |->
                      IF text[i] \in WordChars \/ IsWhitespace(text[i])
                      THEN text[i] ELSE " "]
    IN  {t \in TokenSet(spaced) : Len(t) > 2}

\* C15: for all texts A and B whose token sets (lower-cased words of length
\* > 2) are disjoint, calculatePatternMatchConfidence(A, B) is strictly less
\* than 0.2, whatever the character lengths of A and B.
C15_DisjointTextsScoreBelowFifth ==
    (IsMatchCall /\ WordSet(call.userRequest) \cap WordSet(call.pattern) = {}) =>
        (IsNumber(call.result) /\ call.result < 200)

ZeroMagnitude(v) == \A i \in 1..Len(v) : v[i] = 0

\* C16: degenerate inputs never produce an undefined number:
\* calculatePatternMatchConfidence returns a finite score of at most 0.2
\* whenever the text, the pattern or both are empty strings, and every cosine
\* similarity returns 0 whenever either operand is empty or has zero magnitude.
C16_DegenerateInputsScoreNearZero ==
    /\ (IsMatchCall /\ (call.userRequest = <<>> \/ call.pattern = <<>>)) =>
          (IsNumber(call.result) /\ call.result >= 0 /\ call.result <= 200)
    /\ (call.fn = "frequencyCosineSimilarity"
           /\ (DOMAIN call.freqA = {} \/ DOMAIN call.freqB = {})) =>
          call.result = 0
    /\ (call.fn = "vectorCosineSimilarity"
           /\ (ZeroMagnitude(call.a) \/ ZeroMagnitude(call.b))) =>
          call.result = 0

-----------------------------------------------------------------------------
(* Claims about the functions over a feedback list *)

\* The positions of the history that lie inside the window of the call
InWindowPositions ==
    {i \in 1..Len(call.history) : call.now - call.history[i].timestamp < call.windowMs}

\* Two in-window positions with no in-window position between them
AdjacentInWindow(i, j) ==
    /\ i \in InWindowPositions /\ j \in InWindowPositions /\ i < j
    /\ \A k \in InWindowPositions : ~(i < k /\ k < j)

OppositeSigns(a, b) ==
    {a.sentiment, b.sentiment} = {"positive", "negative"}

NumAlternatingPairs ==
    Cardinality({p \in InWindowPositions \X InWindowPositions :
                    /\ AdjacentInWindow(p[1], p[2])
                    /\ OppositeSigns(call.history[p[1]], call.history[p[2]])})

SentimentsOf(history) == [i \in 1..Len(history) |-> history[i].sentiment]

\* C17: detectContradictoryFeedback(history, windowMs) returns
\* hasContradiction = true exactly when history has at least 3 entries, at least
\* 3 of them satisfy now - timestamp < windowMs, and among those, in list
\* order, at least 2 adjacent pairs are of opposite signs (a neutral entry
\* between breaks the pair); [positive, negative, positive, negative] inside
\* the window gives true and [positive, positive, positive] gives false.
C17_ContradictionExact ==
    call.fn = "detectContradictoryFeedback" =>
        /\ call.result.hasContradiction =
              (/\ Len(call.history) >= 3
               /\ Cardinality(InWindowPositions) >= 3
               /\ NumAlternatingPairs >= 2)
        /\ (/\ SentimentsOf(call.history) = <<"positive", "negative", "positive", "negative">>
            /\ Cardinality(InWindowPositions) = 4) => call.result.hasContradiction
        /\ SentimentsOf(call.history) = <<"positive", "positive", "positive">> =>
              ~call.result.hasContradiction

\* A contradiction found in a history that also holds an entry outside the
\* window and a neutral entry
C17_Witness ==
    /\ call.fn = "detectContradictoryFeedback"
    /\ call.result.hasContradiction
    /\ call.result.pattern = ContradictionPattern
    /\ Cardinality(InWindowPositions) < Len(call.history)

\* A history of alternating signs that is no contradiction, because a neutral
\* entry or the window breaks the pairs
C17_WitnessNone ==
    /\ call.fn = "detectContradictoryFeedback"
    /\ ~call.result.hasContradiction
    /\ Len(call.history) = 4
    /\ Cardinality(InWindowPositions) = 4
    /\ NumAlternatingPairs = 1

NumWithSentiment(list, sentiment) ==
    Cardinality({i \in 1..Len(list) : list[i].sentiment = sentiment})

\* C18: aggregateFeedback(list) returns positiveCount + negativeCount +
\* neutralCount = totalFeedback = length of list; dominantSentiment is positive
\* (negative) only when that count is strictly greater than each of the other
\* two; every tie for the largest count, and the empty list, give neutral.
C18_AggregateCountsAndMajority ==
    call.fn = "aggregateFeedback" =>
        LET r == call.result
            p == NumWithSentiment(call.feedbackList, "positive")
            n == NumWithSentiment(call.feedbackList, "negative")
            u == NumWithSentiment(call.feedbackList, "neutral")
        IN  /\ r.positiveCount = p /\ r.negativeCount = n /\ r.neutralCount = u
            /\ r.positiveCount + r.negativeCount + r.neutralCount = r.totalFeedback
            /\ r.totalFeedback = Len(call.feedbackList)
            /\ (r.dominantSentiment = "positive") = (p > n /\ p > u)
            /\ (r.dominantSentiment = "negative") = (n > p /\ n > u)
            /\ r.dominantSentiment \in {"positive", "negative", "neutral"}
            /\ call.feedbackList = <<>> => r.dominantSentiment = "neutral"

\* Positive and negative tied for the largest count: neutral
C18_Witness ==
    /\ call.fn = "aggregateFeedback"
    /\ call.result.positiveCount = 2
    /\ call.result.negativeCount = 2
    /\ call.result.totalFeedback = 4
    /\ call.result.dominantSentiment = "neutral"

-----------------------------------------------------------------------------
(* Claims about repeated calls *)

\* C19: each core operation (beforeAction, calculatePatternMatchConfidence,
\* measureResonance, processFeedback, aggregateFeedback,
\* adjustResonanceWithFeedback, shouldTransitionState,
\* detectContradictoryFeedback) is a function of its explicit arguments only:
\* two calls with identical arguments return identical results, whatever the
\* moment at which each call is made.
C19_SameArgumentsSameResult ==
    "again" \in DOMAIN call => call.again = call.result

\* The same for the seven operations that do not read the clock
C19_ClockFreeOperationsRepeat ==
    ("again" \in DOMAIN call /\ call.fn # "detectContradictoryFeedback") =>
        call.again = call.result

-----------------------------------------------------------------------------
(* Claims about the lists handed to the pipeline *)

\* The position of the last reset() in the log, 0 when there was none
LastReset ==
    IF \E i \in 1..Len(log) : log[i].op = "reset"
    THEN CHOOSE i \in 1..Len(log) :
            /\ log[i].op = "reset"
            /\ \A j \in (i + 1)..Len(log) : log[j].op # "reset"
    ELSE 0

IsAdmittedRun(e) == e.op = "run" /\ e.outcome # "threw"

\* The run() calls since the last reset that the agent's own guard let through
AdmittedSinceReset == SelectSeq(SubSeq(log, LastReset + 1, Len(log)), IsAdmittedRun)

\* The feedbacks of the run() calls that resolved with their feedback accepted
AcceptedFeedbacks ==
    { log[i].feedback[1] :
        i \in { j \in 1..Len(log) : /\ log[j].op = "run"
                                    /\ log[j].outcome = "resolved"
                                    /\ log[j].feedback # <<>>
                                    /\ log[j].result.feedbackAccepted } }

\* C20: runPrzPipeline and runPrzPipelineWithFeedback, and with them beforeAction
\* and processFeedback which they call, leave the history and feedbackHistory
\* lists they were given as they were: the same entries in the same order, the
\* current request not appended.  Only PrzAgent appends: its action list is
\* exactly the actions of the run() calls its guard admitted since the last
\* reset, in call order, and its feedback list holds only feedbacks of runs that
\* resolved with the feedback accepted.
C20_SuppliedListsUnchanged ==
    /\ call.fn \in {"runPrzPipeline", "runPrzPipelineWithFeedback"}
          => call.historyAfter = call.history
    /\ call.fn = "runPrzPipelineWithFeedback"
          => call.priorFeedbackAfter = call.priorFeedback
    /\ constructed = "PrzAgent"
          => /\ actionHistory =
                   [i \in 1..Len(AdmittedSinceReset) |->
                       RunAction(AdmittedSinceReset[i].userRequest,
                                 AdmittedSinceReset[i].at)]
             /\ \A i \in 1..Len(feedbackHistory) : feedbackHistory[i] \in AcceptedFeedbacks
             /\ Len(feedbackHistory) <=
                   Cardinality({ j \in 1..Len(log) : /\ log[j].op = "run"
                                                     /\ log[j].outcome = "resolved"
                                                     /\ log[j].feedback # <<>>
                                                     /\ log[j].result.feedbackAccepted })

\* A run of the agent resolved with its feedback accepted after the pipeline had
\* read a list of two actions and a list holding an earlier feedback.
C20_Witness ==
    /\ constructed = "PrzAgent"
    /\ Len(actionHistory) >= 2
    /\ Len(feedbackHistory) >= 2
    /\ runs = <<>>

\* A direct call with both lists non-empty and a feedback that was processed
C20_CallWitness ==
    /\ call.fn = "runPrzPipelineWithFeedback"
    /\ call.history # <<>>
    /\ call.priorFeedback # <<>>
    /\ call.feedback # <<>>
    /\ ~call.result.threw

-----------------------------------------------------------------------------
(* Claims about the symmetry of the similarity measures *)

\* C21: the keyword overlap and both cosine similarities give the same value when
\* their two arguments are exchanged, for token lists and frequency maps of any
\* content and for vectors of equal or different lengths, and so does
\* calculatePatternMatchConfidence.
C21_SimilaritiesSymmetric ==
    /\ call.fn = "calculateKeywordOverlap"
          => call.result = calculateKeywordOverlap(call.tokensB, call.tokensA)
    /\ call.fn = "frequencyCosineSimilarity"
          => call.result = FrequencyCosineSimilarity(call.freqB, call.freqA)
    /\ call.fn = "vectorCosineSimilarity"
          => call.result = VectorCosineSimilarity(call.b, call.a)
    /\ call.fn = "calculatePatternMatchConfidence"
          => call.result = calculatePatternMatchConfidence(call.pattern, call.userRequest)

\* Two token lists that share some tokens but not all, the first the shorter
C21_Witness ==
    /\ call.fn = "calculateKeywordOverlap"
    /\ Cardinality(Range(call.tokensA)) < Cardinality(Range(call.tokensB))
    /\ call.result > 0
    /\ call.result < ONE

\* Two vectors of different lengths that are not orthogonal
C21_VectorWitness ==
    /\ call.fn = "vectorCosineSimilarity"
    /\ Len(call.a) # Len(call.b)
    /\ call.result # 0

-----------------------------------------------------------------------------
(* Claims about shouldSuggestPivot *)

\* C22: shouldSuggestPivot(history) is true exactly when history has at least
\* five actions and its last five all have the same type, whatever their
\* timestamps and payloads and whatever stands before them.
C22_PivotIffLastFiveShareType ==
    call.fn = "shouldSuggestPivot"
        => (call.result <=>
              /\ Len(call.history) >= 5
              /\ \A i \in (Len(call.history) - 4)..Len(call.history) :
                    call.history[i].type = call.history[Len(call.history)].type)

\* Six actions: the first of another type, the last five of one type with
\* different payloads and timestamps; a pivot is suggested.
C22_Witness ==
    /\ call.fn = "shouldSuggestPivot"
    /\ Len(call.history) = 6
    /\ call.history[1].type # call.history[6].type
    /\ \E i, j \in 2..6 : /\ call.history[i].payload # call.history[j].payload
                           /\ call.history[i].timestamp # call.history[j].timestamp
    /\ call.result

-----------------------------------------------------------------------------
(* Claims about PrzAgent.reset *)

\* The state the loaded agent starts from, as the agent built from nothing
\* reaches it
LoadedStateReached ==
    /\ constructed = "PrzAgent"
    /\ now = 0
    /\ actionHistory = <<RunAction(TextAB, 0), RunAction(TextAB, 0), RunAction(TextAB, 0)>>
    /\ feedbackHistory = <<LoadedFeedback>>
    /\ resonanceHistory = <<adjustResonanceWithFeedback(ONE, LoadedFeedback), ONE, ONE>>
    /\ eiHistory = <<analyzeEmotion(TextAB), analyzeEmotion(TextAB), analyzeEmotion(TextAB)>>
    /\ runs = <<>>

\* What a caller finds when reset() has returned
ClearedByReset ==
    /\ actionHistory = <<>>
    /\ feedbackHistory = <<>>
    /\ resonanceHistory = <<>>
    /\ getStatus.feedback.totalFeedback = 0
    /\ getStatus.resonanceHistory = <<>>
    /\ getStatus.lastState = "vapor"

\* The run() call that follows a reset() is let through
RunAfterResetAccepted ==
    \A i \in 1..(Len(log) - 1) :
        (log[i].op = "reset" /\ log[i + 1].op = "run") => log[i + 1].outcome # "threw"

\* C23: when reset() returns, the action, feedback and resonance lists are empty
\* and getStatus() reports no feedback, no resonance values and the state vapor;
\* the next run() is accepted, also for a request the guard rejected just before
\* the reset.
C23_ResetClearsHistory ==
    /\ [][Reset => ClearedByReset']_vars
    /\ []RunAfterResetAccepted

\* A request rejected, then reset(), then the same request at the same reading
\* of the clock resolved.
C23_Witness ==
    /\ Len(log) >= 3
    /\ log[1].op = "run" /\ log[1].outcome = "threw"
    /\ log[2].op = "reset"
    /\ log[3].op = "run" /\ log[3].outcome = "resolved"
    /\ log[3].userRequest = log[1].userRequest
    /\ log[3].at = log[1].at

-----------------------------------------------------------------------------
(* Claims about the lists of a PrzAgent in use *)

\* The largest distance between two of the timestamps at positions S of list
Span(list, S) ==
    LET stamps == {list[i].timestamp : i \in S}
    IN  IF stamps = {} THEN 0
        ELSE (CHOOSE hi \in stamps : \A t \in stamps : t <= hi)
               - (CHOOSE lo \in stamps : \A t \in stamps : lo <= t)

\* C24: whatever run() and reset() calls were made, overlapping or not, the
\* action list never holds four entries of one request text whose timestamps
\* lie within a span shorter than five minutes.
C24_NoFourSameRequestsInWindow ==
    constructed = "PrzAgent" =>
        ~ \E S \in SUBSET (1..Len(actionHistory)) :
              /\ Cardinality(S) = 4
              /\ \A i, j \in S : actionHistory[i].payload = actionHistory[j].payload
              /\ Span(actionHistory, S) < LOOP_DETECTION_WINDOW_MS

\* A run() rejected while another run() was in flight, the list holding three
\* entries of the rejected text stamped within five minutes of the call
C24_Witness ==
    \E i \in 1..Len(log) :
        /\ log[i].op = "run" /\ log[i].outcome = "threw"
        /\ \E j \in 1..(i - 1) : log[j].op = "run" /\ log[j].outcome = "pending"
        /\ \E S \in SUBSET (1..Len(actionHistory)) :
              /\ Cardinality(S) = 3
              /\ \A k \in S : /\ actionHistory[k].payload = StringPayload(log[i].userRequest)
                               /\ log[i].at - actionHistory[k].timestamp
                                      < LOOP_DETECTION_WINDOW_MS

\* C25: whatever run() calls carrying feedback were made, overlapping or not,
\* the feedback list never holds four entries with one artifactId, sentiment and
\* type whose timestamps lie within a span shorter than five minutes.
C25_NoFourSameFeedbacksInWindow ==
    constructed = "PrzAgent" =>
        ~ \E S \in SUBSET (1..Len(feedbackHistory)) :
              /\ Cardinality(S) = 4
              /\ \A i, j \in S :
                    /\ feedbackHistory[i].artifactId = feedbackHistory[j].artifactId
                    /\ feedbackHistory[i].sentiment = feedbackHistory[j].sentiment
                    /\ feedbackHistory[i].type = feedbackHistory[j].type
              /\ Span(feedbackHistory, S) < LOOP_DETECTION_WINDOW_MS

\* A step of run() that ends in the guard's rejection
RunRejected ==
    /\ Run
    /\ log'[Len(log')].outcome = "threw"

\* C26: a run() call that the guard rejects records nothing: the action,
\* feedback and resonance lists are after the call exactly what they were
\* before it.
C26_RejectedRunRecordsNothing ==
    [][RunRejected => UNCHANGED <<actionHistory, feedbackHistory, resonanceHistory>>]_vars

\* A call carrying feedback was rejected while the lists were not empty
C26_Witness ==
    /\ Len(log) >= 1
    /\ log[Len(log)].op = "run"
    /\ log[Len(log)].outcome = "threw"
    /\ log[Len(log)].feedback # <<>>
    /\ Len(actionHistory) >= 3
    /\ feedbackHistory # <<>>
    /\ resonanceHistory # <<>>

\* The positions of the recorded actions whose text is similar to the request
SimilarRecorded(userRequest) ==
    { i \in 1..Len(actionHistory) :
        SimilarityAbove(calculateStringSimilarity(actionHistory[i].payload.text, userRequest),
                        SIMILARITY_THRESHOLD) }

\* At least three similar actions are recorded and the third-most-recent of
\* them is five minutes old or older
ThirdSimilarExpired(userRequest) ==
    LET P == SimilarRecorded(userRequest)
    IN  /\ Cardinality(P) >= 3
        /\ LET third == CHOOSE p \in P : Cardinality({q \in P : q > p}) = 2
           IN  now - actionHistory[third].timestamp >= LOOP_DETECTION_WINDOW_MS

\* C27: a run() whose request has its third-most-recent similar recorded action
\* five minutes or more in the past is accepted, however many attempts were
\* rejected before.
C27_RejectionExpires ==
    [][\A r \in AgentRequests :
          (Run /\ log'[Len(log')].userRequest = r /\ ThirdSimilarExpired(r))
              => log'[Len(log')].outcome = "pending"]_vars

\* Two attempts rejected at different times, then the same request resolved
\* once five minutes had passed, with no reset in between
C27_Witness ==
    /\ Len(log) >= 3
    /\ \A i \in 1..3 : log[i].op = "run" /\ log[i].userRequest = log[1].userRequest
    /\ log[1].outcome = "threw"
    /\ log[2].outcome = "threw"
    /\ log[2].at > log[1].at
    /\ log[3].outcome = "resolved"
    /\ log[3].at - actionHistory[1].timestamp >= LOOP_DETECTION_WINDOW_MS
    /\ Len(actionHistory) = 4

IsAcceptedFeedbackRun(e) ==
    /\ e.op = "run"
    /\ e.outcome = "resolved"
    /\ e.feedback # <<>>
    /\ e.result.feedbackAccepted

\* The run() calls since the last reset whose feedback processFeedback accepted
AcceptedSinceReset == SelectSeq(SubSeq(log, LastReset + 1, Len(log)), IsAcceptedFeedbackRun)

\* C28: whenever no run() is in flight, the resonance list and the action list
\* have the same length, one entry for each run() that passed the guard since
\* the last reset, and the feedback list is the accepted feedbacks since the
\* last reset in order, so never longer than the resonance list.
C28_ListsAgreeWhenIdle ==
    (constructed = "PrzAgent" /\ runs = <<>>) =>
        /\ Len(resonanceHistory) = Len(actionHistory)
        /\ Len(actionHistory) = Len(AdmittedSinceReset)
        /\ feedbackHistory =
              [i \in 1..Len(AcceptedSinceReset) |-> AcceptedSinceReset[i].feedback[1]]
        /\ Len(feedbackHistory) <= Len(resonanceHistory)

\* Every recorded action has the type run() gives it, and no run() in flight
\* holds a rejection from the pipeline
PipelineGuardSilent ==
    /\ \A i \in 1..Len(actionHistory) : actionHistory[i].type = "user_request"
    /\ \A k \in 1..Len(runs) : ~runs[k].pipelineResult.threw

\* C29: inside run() the pipeline's own guard never rejects, its candidate being
\* of type request and every recorded action of type user_request: a run() that
\* was let through by the agent's guard and recorded its action always
\* resolves, so a loop rejection comes only from the agent's guard, before the
\* action is recorded.
C29_OnlyAgentGuardRejects ==
    /\ [](constructed = "PrzAgent" => PipelineGuardSilent)
    /\ [][RunRecord => log'[Head(runs).entry].outcome = "resolved"]_vars

\* The third run() of one request at one reading of the clock resolved: the
\* pipeline's guard saw three recorded actions of the same text inside its
\* window and let the request pass.
C29_Witness ==
    /\ constructed = "PrzAgent"
    /\ Len(log) >= 3
    /\ \A i \in 1..3 : /\ log[i].op = "run"
                        /\ log[i].userRequest = log[1].userRequest
                        /\ log[i].at = log[1].at
                        /\ log[i].outcome = "resolved"
    /\ Len(actionHistory) >= 3

-----------------------------------------------------------------------------
(* Claims about the direction of a feedback adjustment *)

\* C30: for a resonance r and one feedback entry, with c the value of r clamped
\* to [0, 1]: neutral feedback gives c and no transition; positive feedback
\* gives c or more and never a transition to vapor; negative feedback gives c
\* or less and never a transition to crystal.
C30_AdjustmentFollowsSentiment ==
    /\ (call.fn = "adjustResonanceWithFeedback" /\ ~IsAggregation(call.feedback)) =>
          LET c == Clamp01(call.originalResonance)
          IN  /\ call.feedback.sentiment = "neutral" => call.result = c
              /\ call.feedback.sentiment = "positive" => call.result >= c
              /\ call.feedback.sentiment = "negative" => call.result <= c
    /\ (call.fn = "shouldTransitionState" /\ ~IsAggregation(call.feedback)) =>
          /\ call.feedback.sentiment = "neutral" => ~call.result.shouldTransition
          /\ call.feedback.sentiment = "positive"
                => ~(call.result.shouldTransition /\ call.result.newState = "vapor")
          /\ call.feedback.sentiment = "negative"
                => ~(call.result.shouldTransition /\ call.result.newState = "crystal")

\* Positive feedback lifted a resonance below the threshold into crystal
C30_Witness ==
    /\ call.fn = "shouldTransitionState"
    /\ ~IsAggregation(call.feedback)
    /\ call.feedback.sentiment = "positive"
    /\ call.currentResonance < CRYSTAL_THRESHOLD
    /\ call.result.shouldTransition
    /\ call.result.newState = "crystal"

\* Neutral feedback on a resonance outside [0, 1] returned the clamped value
C30_NeutralWitness ==
    /\ call.fn = "adjustResonanceWithFeedback"
    /\ ~IsAggregation(call.feedback)
    /\ call.feedback.sentiment = "neutral"
    /\ call.originalResonance > ONE
    /\ call.result = ONE

=============================================================================
